---------------------------- MODULE Spec2Model ----------------------------
(***************************************************************************)
(* Client-side latency aggregation of the query-insights dashboards:       *)
(* the percentile calculator, the shard/node aggregators and the           *)
(* query-phase allocator of src/public/pages/LatencyAnalysis.              *)
(*                                                                         *)
(* JavaScript numbers are modelled as exact rationals n/d in lowest terms  *)
(* with d > 0; the record with d = 0 is NaN (the result of 0/0).  Rounding *)
(* of IEEE doubles is not modelled: every statement below is about the     *)
(* exact value of the expression the code evaluates.                       *)
(***************************************************************************)
EXTENDS Integers, Sequences, FiniteSets, TLC

(***************************************************************************)
(* Bounds of the model.                                                    *)
(***************************************************************************)
\* longest pool of latency measurements of one shard
MaxSamples == 5

\* most records in the list handed to the aggregated shard heat map
MaxRecords == 2

\* most shards in the shardPerformance of one record
MaxShards == 2

\* longest series of historical data points of one record
MaxHistory == 12

\* most live-queries requests that are followed at a time: when one more is
\* issued, the oldest is taken never to return
MaxOutstanding == 2

\* most clauses in each of bool.must, bool.should and bool.filter of a query
MaxClauses == 2

\* most shards a record names in affectedShards
MaxAffectedShards == 6

(***************************************************************************)
(* Numbers.                                                                *)
(***************************************************************************)
Abs(i) == IF i < 0 THEN -i ELSE i

RECURSIVE GCD(_, _)
GCD(a, b) == IF b = 0 THEN a ELSE GCD(b, a % b)

\* NaN, the value of 0/0
NaN == [n |-> 0, d |-> 0]

\* an absent optional field (undefined)
Undefined == [n |-> 0, d |-> -1]

IsNaN(x) == x.d = 0

\* the number n/d, d >= 0, in lowest terms; 0/0 is NaN
Num(n, d) ==
    IF d = 0 THEN NaN
    ELSE LET g == GCD(Abs(n), d) IN [n |-> n \div g, d |-> d \div g]

Int2Num(i) == [n |-> i, d |-> 1]

Zero == Int2Num(0)

One == Int2Num(1)

\* a + b
Add(a, b) ==
    IF IsNaN(a) \/ IsNaN(b) THEN NaN
    ELSE Num(a.n * b.d + b.n * a.d, a.d * b.d)

\* a - b
Sub(a, b) ==
    IF IsNaN(a) \/ IsNaN(b) THEN NaN
    ELSE Num(a.n * b.d - b.n * a.d, a.d * b.d)

\* a * b
Mul(a, b) ==
    IF IsNaN(a) \/ IsNaN(b) THEN NaN
    ELSE Num(a.n * b.n, a.d * b.d)

\* a / b for b >= 0; 0/0 is NaN (no code path divides a non-zero number by 0)
Div(a, b) ==
    IF IsNaN(a) \/ IsNaN(b) \/ b.n = 0 THEN NaN
    ELSE Num(a.n * b.d, a.d * b.n)

\* a < b, a <= b, a > b, a >= b: false as soon as one side is NaN
Lt(a, b) == ~IsNaN(a) /\ ~IsNaN(b) /\ a.n * b.d < b.n * a.d

Leq(a, b) == ~IsNaN(a) /\ ~IsNaN(b) /\ a.n * b.d <= b.n * a.d

Gt(a, b) == Lt(b, a)

Geq(a, b) == Leq(b, a)

\* Math.floor and Math.ceil of a number >= 0, as integers
Floor(a) == a.n \div a.d

Ceil(a) == (a.n + a.d - 1) \div a.d

\* Math.max(a, b): NaN as soon as one argument is NaN
Max2(a, b) ==
    IF IsNaN(a) \/ IsNaN(b) THEN NaN
    ELSE IF Lt(a, b) THEN b ELSE a

Min2(a, b) ==
    IF IsNaN(a) \/ IsNaN(b) THEN NaN
    ELSE IF Lt(b, a) THEN b ELSE a

\* Math.max(...arr) and Math.min(...arr) of a non-empty array
RECURSIVE MathMax(_)
MathMax(arr) ==
    IF Len(arr) = 1 THEN arr[1] ELSE Max2(arr[1], MathMax(Tail(arr)))

RECURSIVE MathMin(_)
MathMin(arr) ==
    IF Len(arr) = 1 THEN arr[1] ELSE Min2(arr[1], MathMin(Tail(arr)))

\* arr.reduce((sum, l) => sum + l, 0)
RECURSIVE Sum(_)
Sum(arr) == IF arr = <<>> THEN Zero ELSE Add(arr[1], Sum(Tail(arr)))

\* x ?? y
Nullish(x, y) == IF x = Undefined THEN y ELSE x

\* x || y on numbers: y when x is undefined, 0 or NaN
OrElse(x, y) == IF x = Undefined \/ IsNaN(x) \/ x.n = 0 THEN y ELSE x

(***************************************************************************)
(* Array.prototype.sort((a, b) => a - b): insertion of each element after  *)
(* the elements it does not precede.  The comparator returns NaN when one  *)
(* side is NaN, which sort treats as "equal".                              *)
(***************************************************************************)
RECURSIVE Insert(_, _)
Insert(x, sorted) ==
    IF sorted = <<>> THEN <<x>>
    ELSE IF Lt(x, sorted[1]) THEN <<x>> \o sorted
    ELSE <<sorted[1]>> \o Insert(x, Tail(sorted))

SortUnsorted(arr) == arr

RECURSIVE SortAscending(_)
SortAscending(arr) ==
    IF arr = <<>> THEN <<>>
    ELSE Insert(arr[Len(arr)], SortAscending(SubSeq(arr, 1, Len(arr) - 1)))

(***************************************************************************)
(* Percentile calculator.                                                  *)
(***************************************************************************)
\* the fraction k/100
Pct(k) == Num(k, 100)

\* percentile without interpolation: the order statistic at floor(index)
percentileNoInterpolation(arr, p) ==
    IF Len(arr) = 0 THEN Zero
    ELSE arr[Floor(Mul(p, Int2Num(Len(arr) - 1))) + 1]

\* percentile with the two interpolation weights exchanged
percentileSwappedWeights(arr, p) ==
    IF Len(arr) = 0 THEN Zero
    ELSE LET index == Mul(p, Int2Num(Len(arr) - 1))
             lower == Floor(index)
             upper == Ceil(index)
             weight == Sub(index, Int2Num(lower))
         IN  IF upper >= Len(arr) THEN arr[Len(arr)]
             ELSE Add(Mul(arr[lower + 1], weight),
                      Mul(arr[upper + 1], Sub(One, weight)))

\* ShardHeatMap.tsx percentile(arr, p); arr is 0-based in the code
percentile(arr, p) ==
    IF Len(arr) = 0 THEN Zero
    ELSE LET index == Mul(p, Int2Num(Len(arr) - 1))
             lower == Floor(index)
             upper == Ceil(index)
             weight == Sub(index, Int2Num(lower))
         IN  IF upper >= Len(arr) THEN arr[Len(arr)]
             ELSE Add(Mul(arr[lower + 1], Sub(One, weight)),
                      Mul(arr[upper + 1], weight))

\* dataLoader.ts percentileCalc(sortedArray, percentile)
percentileCalc(sortedArray, p) ==
    IF Len(sortedArray) = 0 THEN Zero
    ELSE LET index == Mul(p, Int2Num(Len(sortedArray) - 1))
             lower == Floor(index)
             upper == Ceil(index)
             weight == Sub(index, Int2Num(lower))
         IN  IF upper >= Len(sortedArray) THEN sortedArray[Len(sortedArray)]
             ELSE Add(Mul(sortedArray[lower + 1], Sub(One, weight)),
                      Mul(sortedArray[upper + 1], weight))

\* the four percentiles every aggregator derives from a sorted pool
PercentileSet(sorted) ==
    [p50 |-> percentile(sorted, Pct(50)),
     p90 |-> percentile(sorted, Pct(90)),
     p95 |-> percentile(sorted, Pct(95)),
     p99 |-> percentile(sorted, Pct(99))]

(***************************************************************************)
(* Mock data loader (dataLoader.ts).  A shard is a ShardPerformance:       *)
(* shardId, nodeId, latency, status, docCount, the optional p50Latency ..  *)
(* p99Latency (Undefined when absent) and the optional latencyDistribution *)
(* (hasDistribution is FALSE when it is absent).                           *)
(***************************************************************************)
\* generateShardLatencyDistribution, given the measurements it drew
generateShardLatencyDistribution(measurements) ==
    LET sorted == SortAscending(measurements)
    IN  [latencies |-> sorted,
         p50 |-> percentileCalc(sorted, Pct(50)),
         p90 |-> percentileCalc(sorted, Pct(90)),
         p95 |-> percentileCalc(sorted, Pct(95)),
         p99 |-> percentileCalc(sorted, Pct(99))]

\* the elements of seq, each kept at its first occurrence (the key order of
\* a Map filled in the order of seq)
RECURSIVE InsertionOrder(_)
InsertionOrder(seq) ==
    IF seq = <<>> THEN <<>>
    ELSE LET front == InsertionOrder(SubSeq(seq, 1, Len(seq) - 1))
             last == seq[Len(seq)]
         IN  IF \E i \in 1..Len(front) : front[i] = last THEN front
             ELSE Append(front, last)

\* shard.latencyDistribution || [shard.latency]: an array, also an empty
\* one, is truthy
Measurements(shard) ==
    IF shard.hasDistribution THEN shard.latencyDistribution
    ELSE <<shard.latency>>

\* shards.flatMap(shard => shard.latencyDistribution || [shard.latency])
RECURSIVE FlatMeasurements(_)
FlatMeasurements(shards) ==
    IF shards = <<>> THEN <<>>
    ELSE Measurements(shards[1]) \o FlatMeasurements(Tail(shards))

\* Math.max(avgLatency, maxShardP99 * 0.8)
nodeAvgLatencyOf(avgLatency, maxShardP99) ==
    Max2(avgLatency, Mul(maxShardP99, Num(8, 10)))

\* the performance of one node, given its shards in the order of the list
NodePerformanceOf(nodeId, nodeShards) ==
    LET allLatencies == FlatMeasurements(nodeShards)
        sortedLatencies == SortAscending(allLatencies)
        avgLatency == Div(Sum(sortedLatencies), Int2Num(Len(sortedLatencies)))
        maxShardP99 ==
            MathMax([i \in 1..Len(nodeShards) |->
                        OrElse(nodeShards[i].p99Latency, nodeShards[i].latency)])
        nodeAvgLatency == nodeAvgLatencyOf(avgLatency, maxShardP99)
    IN  [nodeId |-> nodeId,
         avgLatency |-> nodeAvgLatency,
         status |-> IF Gt(nodeAvgLatency, Int2Num(8000)) THEN "failed"
                    ELSE IF Gt(nodeAvgLatency, Int2Num(4000)) THEN "degraded"
                    ELSE "healthy",
         p50Latency |-> percentileCalc(sortedLatencies, Pct(50)),
         p90Latency |-> percentileCalc(sortedLatencies, Pct(90)),
         p95Latency |-> percentileCalc(sortedLatencies, Pct(95)),
         p99Latency |-> percentileCalc(sortedLatencies, Pct(99))]

generateNodePerformanceFromShards(shards) ==
    LET nodeIds == InsertionOrder([i \in 1..Len(shards) |-> shards[i].nodeId])
    IN  [k \in 1..Len(nodeIds) |->
            NodePerformanceOf(
                nodeIds[k],
                SelectSeq(shards, LAMBDA sh : sh.nodeId = nodeIds[k]))]

\* a record of mockLatencyData: its nodePerformance is generated from its
\* shardPerformance when the module is loaded
LoadedRecord(shards) ==
    [shardPerformance |-> shards,
     nodePerformance |-> generateNodePerformanceFromShards(shards)]

(***************************************************************************)
(* Aggregated shard heat map (ShardHeatMap.tsx, ShardHeatMapAggregated).   *)
(***************************************************************************)
\* the characters of the identifiers of the model, as their code units
\* ("products-" is 112 114 111 100 117 99 116 115 45, "node-" is 110 111
\* 100 101 45, the digits are 48 to 57)
Characters ==
    [id \in {"products-0"} |-> <<112, 114, 111, 100, 117, 99, 116, 115, 45, 48>>]
    @@ [id \in {"products-10"} |->
            <<112, 114, 111, 100, 117, 99, 116, 115, 45, 49, 48>>]
    @@ [id \in {"products-3"} |-> <<112, 114, 111, 100, 117, 99, 116, 115, 45, 51>>]
    @@ [id \in {"node-1"} |-> <<110, 111, 100, 101, 45, 49>>]
    @@ [id \in {"node-2"} |-> <<110, 111, 100, 101, 45, 50>>]

\* a comparison of the identifiers by the number that ends them
NumericLess(a, b) ==
    LET number == [id \in {"products-0"} |-> 0] @@ [id \in {"products-10"} |-> 10]
                  @@ [id \in {"products-3"} |-> 3] @@ [id \in {"node-1"} |-> 1]
                  @@ [id \in {"node-2"} |-> 2]
    IN  number[a] < number[b]

\* a.localeCompare(b) < 0 for identifiers of lower-case letters, hyphens
\* and digits, which collate in the order of their code units: at the first
\* position where the two differ the smaller character decides, and an
\* identifier comes before those it is a proper prefix of
LocaleLess(a, b) ==
    LET x == Characters[a]
        y == Characters[b]
        common == IF Len(x) < Len(y) THEN Len(x) ELSE Len(y)
        differ == {i \in 1..common : x[i] # y[i]}
    IN  IF differ = {} THEN Len(x) < Len(y)
        ELSE LET first == CHOOSE i \in differ : \A j \in differ : i <= j
             IN  x[first] < y[first]

\* list.sort((a, b) => a.shardId.localeCompare(b.shardId))
RECURSIVE InsertByShardId(_, _)
InsertByShardId(x, sorted) ==
    IF sorted = <<>> THEN <<x>>
    ELSE IF LocaleLess(x.shardId, sorted[1].shardId) THEN <<x>> \o sorted
    ELSE <<sorted[1]>> \o InsertByShardId(x, Tail(sorted))

RECURSIVE SortByShardId(_)
SortByShardId(list) ==
    IF list = <<>> THEN <<>>
    ELSE InsertByShardId(list[Len(list)],
                         SortByShardId(SubSeq(list, 1, Len(list) - 1)))

\* list.sort((a, b) => a.nodeId.localeCompare(b.nodeId))
RECURSIVE InsertByNodeId(_, _)
InsertByNodeId(x, sorted) ==
    IF sorted = <<>> THEN <<x>>
    ELSE IF LocaleLess(x.nodeId, sorted[1].nodeId) THEN <<x>> \o sorted
    ELSE <<sorted[1]>> \o InsertByNodeId(x, Tail(sorted))

RECURSIVE SortByNodeId(_)
SortByNodeId(list) ==
    IF list = <<>> THEN <<>>
    ELSE InsertByNodeId(list[Len(list)],
                        SortByNodeId(SubSeq(list, 1, Len(list) - 1)))

\* the shards of all records, in the order records.forEach visits them
RECURSIVE AllShards(_)
AllShards(records) ==
    IF records = <<>> THEN <<>>
    ELSE records[1].shardPerformance \o AllShards(Tail(records))

\* the node performances of all records, in the order of the visit
RECURSIVE AllNodes(_)
AllNodes(records) ==
    IF records = <<>> THEN <<>>
    ELSE records[1].nodePerformance \o AllNodes(Tail(records))

\* the data points one shard observation pushes to shardDataMap
ShardDataPoints(shard) ==
    LET latencyMeasurements == Measurements(shard)
    IN  [i \in 1..Len(latencyMeasurements) |->
            [latency |-> latencyMeasurements[i],
             status |-> shard.status,
             docCount |-> shard.docCount,
             nodeId |-> shard.nodeId]]

\* shardDataMap.get(key) after the visit of the given shards
RECURSIVE ShardData(_, _)
ShardData(shards, key) ==
    IF shards = <<>> THEN <<>>
    ELSE (IF shards[1].shardId = key THEN ShardDataPoints(shards[1]) ELSE <<>>)
         \o ShardData(Tail(shards), key)

\* records[0]?.shardPerformance.find(s => s.shardId === shardId), as the
\* sequence of its matches: the first one is the result, none is undefined
OriginalShards(records, shardId) ==
    SelectSeq(records[1].shardPerformance, LAMBDA sh : sh.shardId = shardId)

\* records[0]?.nodePerformance.find(n => n.nodeId === nodeId)
OriginalNodes(records, nodeId) ==
    SelectSeq(records[1].nodePerformance, LAMBDA nd : nd.nodeId = nodeId)

\* Math.ceil(a / b) for integers a >= 0, b > 0
CeilDiv(a, b) == (a + b - 1) \div b

\* the aggregate of one shard; data is not empty
AggregatedShard(records, shardId, data) ==
    LET lat == SortAscending([i \in 1..Len(data) |-> data[i].latency])
        docCounts == [i \in 1..Len(data) |-> Int2Num(data[i].docCount)]
        successCount ==
            Cardinality({i \in 1..Len(data) : data[i].status = "success"})
        original == OriginalShards(records, shardId)
        known == original # <<>>
        distLength ==
            IF known /\ original[1].hasDistribution
               /\ original[1].latencyDistribution # <<>>
            THEN Len(original[1].latencyDistribution)
            ELSE 1
    IN  [shardId |-> shardId,
         nodeId |-> data[1].nodeId,
         p50Latency |-> Nullish(IF known THEN original[1].p50Latency ELSE Undefined,
                                percentile(lat, Pct(50))),
         p90Latency |-> Nullish(IF known THEN original[1].p90Latency ELSE Undefined,
                                percentile(lat, Pct(90))),
         p95Latency |-> Nullish(IF known THEN original[1].p95Latency ELSE Undefined,
                                percentile(lat, Pct(95))),
         p99Latency |-> Nullish(IF known THEN original[1].p99Latency ELSE Undefined,
                                percentile(lat, Pct(99))),
         avgLatency |-> Div(Sum(lat), Int2Num(Len(lat))),
         medianLatency |-> Nullish(IF known THEN original[1].p50Latency ELSE Undefined,
                                   percentile(lat, Pct(50))),
         maxLatency |-> MathMax(lat),
         minLatency |-> MathMin(lat),
         queryCount |-> CeilDiv(Len(data), distLength),
         successRate |-> Mul(Div(Int2Num(successCount), Int2Num(Len(data))),
                             Int2Num(100)),
         totalDocCount |-> Sum(docCounts),
         avgDocCount |-> Div(Sum(docCounts), Int2Num(Len(docCounts)))]

\* the keys of shardDataMap, in insertion order
ShardKeys(records) ==
    LET shards == AllShards(records)
    IN  InsertionOrder([i \in 1..Len(shards) |-> shards[i].shardId])

\* whether the aggregatedShardData memo throws: data[0].nodeId of a shard
\* whose array of data points is empty is a TypeError
AggregatedShardDataThrows(records) ==
    /\ records # <<>>
    /\ \E i \in 1..Len(ShardKeys(records)) :
           ShardData(AllShards(records), ShardKeys(records)[i]) = <<>>

\* the value of the aggregatedShardData memo when it does not throw
aggregatedShardDataOf(records) ==
    IF records = <<>> THEN <<>>
    ELSE LET keys == ShardKeys(records)
             shards == AllShards(records)
         IN  SortByShardId(
                 [k \in 1..Len(keys) |->
                     AggregatedShard(records, keys[k], ShardData(shards, keys[k]))])

\* the aggregate of one node; data is not empty
AggregatedNode(records, shardList, nodeId, data) ==
    LET lat == SortAscending([i \in 1..Len(data) |-> data[i].latency])
        avgLatency == Div(Sum(lat), Int2Num(Len(lat)))
        shardCount ==
            Cardinality({i \in 1..Len(shardList) : shardList[i].nodeId = nodeId})
        healthyCount ==
            Cardinality({i \in 1..Len(data) : data[i].status = "healthy"})
        healthScore ==
            Mul(Div(Int2Num(healthyCount), Int2Num(Len(data))), Int2Num(100))
        original == OriginalNodes(records, nodeId)
        known == original # <<>>
    IN  [nodeId |-> nodeId,
         p50Latency |-> Nullish(IF known THEN original[1].p50Latency ELSE Undefined,
                                percentile(lat, Pct(50))),
         p90Latency |-> Nullish(IF known THEN original[1].p90Latency ELSE Undefined,
                                percentile(lat, Pct(90))),
         p95Latency |-> Nullish(IF known THEN original[1].p95Latency ELSE Undefined,
                                percentile(lat, Pct(95))),
         p99Latency |-> Nullish(IF known THEN original[1].p99Latency ELSE Undefined,
                                percentile(lat, Pct(99))),
         avgLatency |-> avgLatency,
         shardCount |-> shardCount,
         queryCount |-> Len(data),
         healthScore |-> healthScore,
         status |->
            IF Gt(avgLatency, Int2Num(5000)) \/ Lt(healthScore, Int2Num(50))
            THEN "critical"
            ELSE IF Gt(avgLatency, Int2Num(2000)) \/ Lt(healthScore, Int2Num(70))
            THEN "degraded"
            ELSE IF Gt(avgLatency, Int2Num(1000)) \/ Lt(healthScore, Int2Num(90))
            THEN "good"
            ELSE "excellent"]

\* the value of the aggregatedNodeData memo
aggregatedNodeDataOf(records, shardList) ==
    IF records = <<>> THEN <<>>
    ELSE LET nodes == AllNodes(records)
             keys == InsertionOrder([i \in 1..Len(nodes) |-> nodes[i].nodeId])
         IN  SortByNodeId(
                 [k \in 1..Len(keys) |->
                     AggregatedNode(
                         records, shardList, keys[k],
                         LET own == SelectSeq(nodes,
                                              LAMBDA nd : nd.nodeId = keys[k])
                         IN  [i \in 1..Len(own) |->
                                 [latency |-> own[i].avgLatency,
                                  status |-> own[i].status]])])

(***************************************************************************)
(* Historical latency chart (HistoricalLatencyChart): anomaly bands.  A    *)
(* band keeps the rolling mean y and the variance of its window; the       *)
(* bounds y1 = y + 2 * sqrt(variance) and y0 = max(0, y - 2 *              *)
(* sqrt(variance)) are irrational in general, so the two comparisons of a  *)
(* value with them are evaluated exactly on the squares.                   *)
(***************************************************************************)
windowSize == 10

\* x * x
Square(x) == Mul(x, x)

\* record.historicalData.map(point => ({x, y, ...})): x is the time of the
\* hourly timestamp in ms
latencyDataOf(historicalData) ==
    [i \in 1..Len(historicalData) |->
        [x |-> historicalData[i].timestamp * 3600000,
         y |-> historicalData[i].latency]]

\* the band of the window that ends at position i (1-based) of latencyData
AnomalyBand(latencyData, i) ==
    LET window == SubSeq(latencyData, i - windowSize + 1, i)
        avg == Div(Sum([k \in 1..Len(window) |-> window[k].y]),
                   Int2Num(windowSize))
        variance ==
            Div(Sum([k \in 1..Len(window) |-> Square(Sub(window[k].y, avg))]),
                Int2Num(windowSize))
    IN  [x |-> latencyData[i].x, y |-> avg, variance |-> variance]

calculateAnomalyBands(latencyData) ==
    IF Len(latencyData) < windowSize THEN <<>>
    ELSE [k \in 1..(Len(latencyData) - windowSize + 1) |->
             AnomalyBand(latencyData, k + windowSize - 1)]

\* value > band.y1, with y1 = avg + 2 * stdDev
AboveY1(value, band) ==
    /\ Gt(value, band.y)
    /\ Gt(Square(Sub(value, band.y)), Mul(Int2Num(4), band.variance))

\* value < avg - 2 * stdDev: the lower bound without Math.max(0, ...)
BelowY0Unclamped(value, band) ==
    /\ Lt(value, band.y)
    /\ Gt(Square(Sub(band.y, value)), Mul(Int2Num(4), band.variance))

\* value < band.y0, with y0 = Math.max(0, avg - 2 * stdDev)
BelowY0(value, band) ==
    IF Gt(band.y, Zero) /\ Gt(Square(band.y), Mul(Int2Num(4), band.variance))
    THEN /\ Lt(value, band.y)
         /\ Gt(Square(Sub(band.y, value)), Mul(Int2Num(4), band.variance))
    ELSE Lt(value, Zero)

\* whether the filter keeps the point at position i (index i - 1 in the code)
IsAnomaly(latencyData, anomalyBands, i) ==
    IF i - 1 < 9 THEN FALSE
    ELSE LET band == anomalyBands[i - 9]
         IN  AboveY1(latencyData[i].y, band) \/ BelowY0(latencyData[i].y, band)

\* latencyData.filter((point, index) => ...), over the first n points
RECURSIVE FilterAnomalies(_, _, _)
FilterAnomalies(latencyData, anomalyBands, n) ==
    IF n = 0 THEN <<>>
    ELSE LET front == FilterAnomalies(latencyData, anomalyBands, n - 1)
         IN  IF IsAnomaly(latencyData, anomalyBands, n)
             THEN Append(front, latencyData[n])
             ELSE front

anomaliesOf(latencyData, anomalyBands) ==
    FilterAnomalies(latencyData, anomalyBands, Len(latencyData))

(***************************************************************************)
(* In-flight queries page (InflightQueries): what fetchliveQueries and the *)
(* metrics memo compute from a response.  A live query of a response has   *)
(* id, timestamp, node_id, is_cancelled, the index named in its            *)
(* description (NoMatch when the description has no indices[...]) and the  *)
(* measurements latency, cpu and memory in ns and bytes (Missing when the  *)
(* measurement is absent).                                                 *)
(***************************************************************************)
TOP_N_DISPLAY_LIMIT == 9

\* an absent measurement
Missing == -1

\* a description without indices[...]
NoMatch == "no match"

\* retrievedQueries.response.live_queries.map(q => ({...q, index, ...}))
parsedQueriesOf(liveQueryList) ==
    [i \in 1..Len(liveQueryList) |->
        [id |-> liveQueryList[i].id,
         timestamp |-> liveQueryList[i].timestamp,
         node_id |-> liveQueryList[i].node_id,
         is_cancelled |-> liveQueryList[i].is_cancelled,
         latency |-> liveQueryList[i].latency,
         cpu |-> liveQueryList[i].cpu,
         memory |-> liveQueryList[i].memory,
         index |-> IF liveQueryList[i].indices = NoMatch THEN "N/A"
                   ELSE liveQueryList[i].indices,
         coordinator_node |-> liveQueryList[i].node_id,
         node_label |-> liveQueryList[i].node_id]]

\* the counts of the keys of a sequence, limited to the TOP_N_DISPLAY_LIMIT
\* keys of largest count (ties in the order of first occurrence) and the
\* sum of the other counts under the key "others"
TopCounts(keys) ==
    LET order == InsertionOrder(keys)
        count(k) == Cardinality({i \in 1..Len(keys) : keys[i] = k})
        position(k) == CHOOSE i \in 1..Len(order) : order[i] = k
        rank(k) ==
            Cardinality({j \in 1..Len(order) :
                            \/ count(order[j]) > count(k)
                            \/ /\ count(order[j]) = count(k)
                               /\ j < position(k)})
        top == {order[i] : i \in 1..Len(order)} \ {k \in {order[i] : i \in 1..Len(order)} : rank(k) >= TOP_N_DISPLAY_LIMIT}
        othersCount == Len(keys) - Cardinality({i \in 1..Len(keys) : keys[i] \in top})
    IN  IF othersCount > 0
        THEN [k \in top \cup {"others"} |->
                 IF k = "others" THEN othersCount ELSE count(k)]
        ELSE [k \in top |-> count(k)]

\* nodeCount of the parsed queries
nodeCountsOf(parsedQueries) ==
    TopCounts([i \in 1..Len(parsedQueries) |-> parsedQueries[i].node_id])

\* topIndexCount of the parsed queries: an empty index name is not counted
indexCountsOf(parsedQueries) ==
    TopCounts(SelectSeq([i \in 1..Len(parsedQueries) |-> parsedQueries[i].index],
                        LAMBDA index : index # ""))

\* a measurement read without ?? 0
MeasurementUnchecked(m) == m

\* q.measurements?.x?.number ?? 0
MeasurementOrZero(m) == IF m = Missing THEN 0 ELSE m

\* the state of the forEach of the metrics memo after the first n queries
RECURSIVE MetricsTotals(_, _)
MetricsTotals(queries, n) ==
    IF n = 0
    THEN [totalLatency |-> 0, totalCPU |-> 0, totalMemory |-> 0,
          longestLatency |-> 0, longestQueryId |-> ""]
    ELSE LET before == MetricsTotals(queries, n - 1)
             latency == MeasurementOrZero(queries[n].latency)
             cpu == MeasurementOrZero(queries[n].cpu)
             memory == MeasurementOrZero(queries[n].memory)
         IN  [totalLatency |-> before.totalLatency + latency,
              totalCPU |-> before.totalCPU + cpu,
              totalMemory |-> before.totalMemory + memory,
              longestLatency |-> IF latency > before.longestLatency
                                 THEN latency ELSE before.longestLatency,
              longestQueryId |-> IF latency > before.longestLatency
                                 THEN queries[n].id
                                 ELSE before.longestQueryId]

\* the metrics memo is null
NoMetrics == [activeQueries |-> -1]

\* the state query: null, or the parsed queries of a response
NoQuery == <<>>

LoadedQuery(parsedQueries) == <<parsedQueries>>

\* the metrics memo of a query state
metricsOf(queryState) ==
    IF queryState = NoQuery \/ Len(queryState[1]) = 0 THEN NoMetrics
    ELSE LET queries == queryState[1]
             totals == MetricsTotals(queries, Len(queries))
             nanos == Int2Num(1000000000)
         IN  [activeQueries |-> Len(queries),
              avgElapsedSec |->
                  Div(Div(Int2Num(totals.totalLatency), Int2Num(Len(queries))),
                      nanos),
              longestElapsedSec |-> Div(Int2Num(totals.longestLatency), nanos),
              longestQueryId |-> totals.longestQueryId,
              totalCPUSec |-> Div(Int2Num(totals.totalCPU), nanos),
              totalMemoryBytes |-> totals.totalMemory]

(***************************************************************************)
(* Query-phase allocator (QueryExecutionWaterfall.tsx).  A record is       *)
(* [avgLatency, affectedShards, queryStructure]; affectedShards is the     *)
(* length of the array, and queryStructure keeps what the allocator reads: *)
(* hasQuery (query.query is set), the lengths of bool.must, bool.should    *)
(* and bool.filter (0 when absent), whether JSON.stringify(query) contains *)
(* 'wildcard' and '*', 'nested', 'script', the size field (0 when absent)  *)
(* and whether aggs or aggregations is set.                                *)
(***************************************************************************)
analyzeQueryComplexity(record) ==
    LET query == record.queryStructure
        fieldCount ==
            IF query.hasQuery THEN query.must + query.should + query.filter
            ELSE 0
        byFields ==
            IF fieldCount > 5 THEN "complex"
            ELSE IF fieldCount > 2 THEN "medium"
            ELSE "simple"
        expensive ==
            query.hasQuery /\ (query.wildcard \/ query.nested \/ query.script)
    IN  [level |-> IF expensive THEN "complex" ELSE byFields,
         fieldCount |-> fieldCount,
         scanType |-> IF query.hasQuery /\ query.wildcard THEN "full_scan"
                      ELSE "index"]

\* queryStructure?.size || 10
extractResultSize(queryStructure) ==
    IF queryStructure.size = 0 THEN 10 ELSE queryStructure.size

\* !!(queryStructure?.aggs || queryStructure?.aggregations)
hasQueryAggregations(queryStructure) == queryStructure.aggs

\* the adjusted fractions with the shard adjustment from 5 shards on
AdjustedAllocationFromFiveShards(queryComplexity, shardCount, resultSize, hasAggregations) ==
    LET complex == queryComplexity.level = "complex"
        medium == queryComplexity.level = "medium"
        manyShards == shardCount >= 5
        large == resultSize > 1000
        fullScan == queryComplexity.scanType = "full_scan"
    IN  [parsing |-> 3 + (IF complex THEN 2 ELSE IF medium THEN 1 ELSE 0),
         planning |-> 7 + (IF complex THEN 5 ELSE IF medium THEN 2 ELSE 0)
                        + (IF manyShards THEN 3 ELSE 0),
         query |-> 50 + (IF complex THEN 10 ELSE IF medium THEN 5 ELSE 0)
                      + (IF manyShards THEN 5 ELSE 0)
                      + (IF hasAggregations THEN 5 ELSE 0)
                      + (IF fullScan THEN 15 ELSE 0),
         fetch |-> 25 + (IF large THEN 10 ELSE 0) - (IF fullScan THEN 5 ELSE 0),
         reduce |-> 15 + (IF manyShards THEN 5 ELSE 0)
                       + (IF large THEN 5 ELSE 0)
                       + (IF hasAggregations THEN 10 ELSE 0)]

\* the adjusted fractions, in hundredths, before they are normalised
AdjustedAllocation(queryComplexity, shardCount, resultSize, hasAggregations) ==
    LET complex == queryComplexity.level = "complex"
        medium == queryComplexity.level = "medium"
        manyShards == shardCount > 5
        large == resultSize > 1000
        fullScan == queryComplexity.scanType = "full_scan"
    IN  [parsing |-> 3 + (IF complex THEN 2 ELSE IF medium THEN 1 ELSE 0),
         planning |-> 7 + (IF complex THEN 5 ELSE IF medium THEN 2 ELSE 0)
                        + (IF manyShards THEN 3 ELSE 0),
         query |-> 50 + (IF complex THEN 10 ELSE IF medium THEN 5 ELSE 0)
                      + (IF manyShards THEN 5 ELSE 0)
                      + (IF hasAggregations THEN 5 ELSE 0)
                      + (IF fullScan THEN 15 ELSE 0),
         fetch |-> 25 + (IF large THEN 10 ELSE 0) - (IF fullScan THEN 5 ELSE 0),
         reduce |-> 15 + (IF manyShards THEN 5 ELSE 0)
                       + (IF large THEN 5 ELSE 0)
                       + (IF hasAggregations THEN 10 ELSE 0)]

\* the allocation with the adjusted fractions returned as they are
allocationNotNormalised(queryComplexity, shardCount, resultSize, hasAggregations) ==
    LET a == AdjustedAllocation(queryComplexity, shardCount, resultSize,
                                hasAggregations)
    IN  [parsing |-> Num(a.parsing, 100),
         planning |-> Num(a.planning, 100),
         query |-> Num(a.query, 100),
         fetch |-> Num(a.fetch, 100),
         reduce |-> Num(a.reduce, 100)]

calculateDynamicPhaseAllocation(queryComplexity, shardCount, resultSize, hasAggregations) ==
    LET a == AdjustedAllocation(queryComplexity, shardCount, resultSize,
                                hasAggregations)
        total == a.parsing + a.planning + a.query + a.fetch + a.reduce
    IN  [parsing |-> Num(a.parsing, total),
         planning |-> Num(a.planning, total),
         query |-> Num(a.query, total),
         fetch |-> Num(a.fetch, total),
         reduce |-> Num(a.reduce, total)]

\* the five phases, given the total latency and the allocation
PhaseList(totalLatency, phaseAllocation) ==
    <<[name |-> "Query Parsing",
       duration |-> Mul(totalLatency, phaseAllocation.parsing),
       startTime |-> Zero],
      [name |-> "Query Planning",
       duration |-> Mul(totalLatency, phaseAllocation.planning),
       startTime |-> Mul(totalLatency, phaseAllocation.parsing)],
      [name |-> "Query Phase",
       duration |-> Mul(totalLatency, phaseAllocation.query),
       startTime |-> Mul(totalLatency,
                         Add(phaseAllocation.parsing, phaseAllocation.planning))],
      [name |-> "Fetch Phase",
       duration |-> Mul(totalLatency, phaseAllocation.fetch),
       startTime |-> Mul(totalLatency,
                         Add(Add(phaseAllocation.parsing, phaseAllocation.planning),
                             phaseAllocation.query))],
      [name |-> "Reduce Phase",
       duration |-> Mul(totalLatency, phaseAllocation.reduce),
       startTime |-> Mul(totalLatency, Sub(One, phaseAllocation.reduce))]>>

\* the phases with the reduce phase started where the query phase ends
phaseTimingReduceAfterQuery(record) ==
    LET l == PhaseList(
                 Int2Num(record.avgLatency),
                 calculateDynamicPhaseAllocation(
                     analyzeQueryComplexity(record),
                     record.affectedShards,
                     extractResultSize(record.queryStructure),
                     hasQueryAggregations(record.queryStructure)))
    IN  [l EXCEPT ![5].startTime = l[4].startTime]

computePhaseTimingFromRecord(record) ==
    PhaseList(
        Int2Num(record.avgLatency),
        calculateDynamicPhaseAllocation(
            analyzeQueryComplexity(record),
            record.affectedShards,
            extractResultSize(record.queryStructure),
            hasQueryAggregations(record.queryStructure)))

computePhaseTimingFromQuery(record) ==
    PhaseList(
        Int2Num(record.avgLatency),
        calculateDynamicPhaseAllocation(
            analyzeQueryComplexity(record),
            record.affectedShards,
            extractResultSize(record.queryStructure),
            hasQueryAggregations(record.queryStructure)))

(***************************************************************************)
(* State.                                                                  *)
(***************************************************************************)
VARIABLES
    \* one pool of latency measurements, in arrival order
    pool,
    \* the pool as the aggregator passes it to percentile
    latencies,
    \* the percentiles the aggregator derived from latencies
    stats,
    \* the record whose execution waterfall is shown
    waterfallRecord,
    \* its phases by computePhaseTimingFromQuery (<<>> before the render)
    queryPhases,
    \* its phases by computePhaseTimingFromRecord (<<>> before the render)
    recordPhases,
    \* the records prop of ShardHeatMapAggregated
    records,
    \* the value of its aggregatedShardData memo
    aggregatedShardData,
    \* the value of its aggregatedNodeData memo
    aggregatedNodeData,
    \* whether its last render threw
    renderThrew,
    \* record.historicalData of the record the latency chart shows
    historicalData,
    \* the anomalyBands of its last render
    anomalyBands,
    \* the anomalies of its last render
    anomalies,
    \* whether the in-flight queries page is mounted
    mounted,
    \* its state autoRefreshEnabled and refreshInterval (ms)
    autoRefreshEnabled,
    refreshInterval,
    \* the interval timers that exist: period and time to the next firing,
    \* in ticks of TickMs
    intervalTimers,
    \* whether the last run of the auto-refresh effect created a timer, the
    \* last one of intervalTimers, which its cleanup will clear
    effectHasInterval,
    \* isFetching.current
    isFetching,
    \* the timer of withTimeout: its delay and the time left, in ticks, or
    \* NoTimer
    timeoutTimer,
    \* the calls of retrieveLiveQueries that have not returned, in the order
    \* of their issue; guarded: withTimeout is still waiting for the call;
    \* dataSource: the id the call was made with
    outstanding,
    \* dataSource.id of the context, as the last render read it
    dataSource,
    \* history of the outstanding calls, one entry for each, in the same
    \* order; safe: fetchliveQueriesSafe made the call; superseded: a call
    \* issued after it has returned and has set what the page shows
    callHistory,
    \* history: what the page shows was set by a call that was superseded
    displayStale,
    \* the states query, nodeChartError, indexChartError, nodeCounts and
    \* indexCounts
    query,
    nodeChartError,
    indexChartError,
    nodeCounts,
    indexCounts,
    \* what the last step did: "mount fetch", "effect fetch" and "timer fetch"
    \* when fetchliveQueriesSafe issued a request, "manual fetch", "other"
    lastStep,
    \* the call of retrieveLiveQueries that returned last returned an empty
    \* list of live queries
    lastFetchEmpty,
    \* the state selectedItems of the page and the selection that the table
    \* keeps itself (sets of rows)
    selectedItems,
    tableSelection,
    \* the cancel requests posted: the task id, and whether the row of that
    \* id was shown as cancelled when the request was posted
    cancelPosts,
    \* the argument of formatTime, [s, ns] for s + ns / 1e9 seconds, and its
    \* result, the parts of the string (<<>> before the call)
    formatInput,
    formatOutput,
    \* the Intelligent Insights page is mounted; the states of useLangGraph;
    \* the calls of langGraphAPI that have not returned
    insightsMounted,
    threads,
    currentThread,
    assistants,
    currentAssistant,
    createNewThreadLoading,
    insightsCalls

poolVars == <<pool, latencies, stats>>

phaseVars == <<waterfallRecord, queryPhases, recordPhases>>

heatMapVars == <<records, aggregatedShardData, aggregatedNodeData, renderThrew>>

chartVars == <<historicalData, anomalyBands, anomalies>>

refreshVars ==
    <<mounted, autoRefreshEnabled, refreshInterval, intervalTimers,
      effectHasInterval, isFetching, timeoutTimer, outstanding, lastStep>>

displayVars == <<query, nodeChartError, indexChartError, nodeCounts, indexCounts>>

selectionVars == <<selectedItems, tableSelection, cancelPosts>>

historyVars == <<callHistory, displayStale>>

liveVars ==
    <<refreshVars, displayVars, lastFetchEmpty, selectionVars, dataSource,
      historyVars>>

formatVars == <<formatInput, formatOutput>>

insightsVars ==
    <<insightsMounted, threads, currentThread, assistants, currentAssistant,
      createNewThreadLoading, insightsCalls>>

otherVars == <<formatVars, insightsVars>>

vars == <<poolVars, phaseVars, heatMapVars, chartVars, liveVars, otherVars>>

(***************************************************************************)
(* Execution waterfall of one record.                                      *)
(***************************************************************************)
\* avgLatency of a record (ms)
AvgLatencies == {0, 7, 1000}

\* size of a query: absent (0), at and above the large-result threshold
ResultSizes == {0, 1000, 1001}

QueryStructures ==
    {[hasQuery |-> FALSE, must |-> 0, should |-> 0, filter |-> 0,
      wildcard |-> FALSE, nested |-> FALSE, script |-> FALSE,
      size |-> sz, aggs |-> ag] : sz \in ResultSizes, ag \in BOOLEAN}
    \cup
    [hasQuery : {TRUE}, must : 0..MaxClauses, should : 0..MaxClauses,
     filter : 0..MaxClauses, wildcard : BOOLEAN, nested : BOOLEAN,
     script : BOOLEAN, size : ResultSizes, aggs : BOOLEAN]

WaterfallRecords ==
    [avgLatency : AvgLatencies, affectedShards : 0..MaxAffectedShards,
     queryStructure : QueryStructures]

NoRecord ==
    [avgLatency |-> 0, affectedShards |-> 0,
     queryStructure |-> [hasQuery |-> FALSE, must |-> 0, should |-> 0,
                         filter |-> 0, wildcard |-> FALSE, nested |-> FALSE,
                         script |-> FALSE, size |-> 0, aggs |-> FALSE]]

PoolIdle ==
    /\ pool = <<>>
    /\ latencies = <<>>
    /\ stats = PercentileSet(<<>>)

PhasesIdle ==
    /\ waterfallRecord = NoRecord
    /\ queryPhases = <<>>
    /\ recordPhases = <<>>

HeatMapIdle ==
    /\ records = <<>>
    /\ aggregatedShardData = <<>>
    /\ aggregatedNodeData = <<>>
    /\ renderThrew = FALSE

ChartIdle ==
    /\ historicalData = <<>>
    /\ anomalyBands = <<>>
    /\ anomalies = <<>>

\* no timer
NoTimer == [delay |-> -1, left |-> -1]

\* the empty object {} of counts
NoCounts == [k \in {} |-> 0]

\* the refresh interval of a page that has just been mounted (ms)
DEFAULT_REFRESH_INTERVAL == 5000

\* the ids of the data sources of the picker, and the one selected when
\* the page is mounted
DataSourceIds == {"cluster-1", "cluster-2"}

InitialDataSource == "cluster-1"

\* the states of the in-flight queries page before it is mounted
LiveIdle ==
    /\ mounted = FALSE
    /\ autoRefreshEnabled = TRUE
    /\ refreshInterval = DEFAULT_REFRESH_INTERVAL
    /\ intervalTimers = <<>>
    /\ effectHasInterval = FALSE
    /\ isFetching = FALSE
    /\ timeoutTimer = NoTimer
    /\ outstanding = <<>>
    /\ query = NoQuery
    /\ nodeChartError = "null"
    /\ indexChartError = "null"
    /\ nodeCounts = NoCounts
    /\ indexCounts = NoCounts
    /\ lastStep = "other"
    /\ lastFetchEmpty = FALSE
    /\ selectedItems = {}
    /\ tableSelection = {}
    /\ cancelPosts = {}
    /\ dataSource = InitialDataSource
    /\ callHistory = <<>>
    /\ displayStale = FALSE

\* no duration is being formatted
NoDuration == [s |-> 0, ns |-> 0]

FormatIdle ==
    /\ formatInput = NoDuration
    /\ formatOutput = <<>>

\* null
NoThread == "null"

NoAssistant == "null"

\* the states of useLangGraph before the page is mounted
InsightsIdle ==
    /\ insightsMounted = FALSE
    /\ threads = <<>>
    /\ currentThread = NoThread
    /\ assistants = <<>>
    /\ currentAssistant = NoAssistant
    /\ createNewThreadLoading = FALSE
    /\ insightsCalls = {}

InitPhases ==
    /\ PoolIdle
    /\ HeatMapIdle
    /\ ChartIdle
    /\ LiveIdle
    /\ FormatIdle
    /\ InsightsIdle
    /\ waterfallRecord \in WaterfallRecords
    /\ queryPhases = <<>>
    /\ recordPhases = <<>>

\* the waterfall renders: aggregatedPhases takes the phases of the record
\* from computePhaseTimingFromQuery and its trend data from
\* computePhaseTimingFromRecord
AggregatePhases ==
    /\ queryPhases = <<>>
    /\ queryPhases' = computePhaseTimingFromQuery(waterfallRecord)
    /\ recordPhases' = computePhaseTimingFromRecord(waterfallRecord)
    /\ UNCHANGED <<waterfallRecord, poolVars, heatMapVars, chartVars, liveVars, otherVars>>

NextPhases == AggregatePhases

SpecPhases == InitPhases /\ [][NextPhases]_vars

(***************************************************************************)
(* Percentiles of one pool of measurements.                                *)
(***************************************************************************)
\* latency measurements a shard may report (ms)
SampleValues == {10, 20, 30, 40, 50}

\* the fractions at which percentile is evaluated
Fractions == {Pct(k) : k \in {0, 25, 50, 90, 95, 99, 100}}

InitPool ==
    /\ PoolIdle
    /\ PhasesIdle
    /\ HeatMapIdle
    /\ ChartIdle
    /\ LiveIdle
    /\ FormatIdle
    /\ InsightsIdle

\* a measurement is pushed to the pool and the statistics are derived again
Measure(v) ==
    /\ Len(pool) < MaxSamples
    /\ pool' = Append(pool, Int2Num(v))
    /\ latencies' = SortAscending(pool')
    /\ stats' = PercentileSet(latencies')
    /\ UNCHANGED <<phaseVars, heatMapVars, chartVars, liveVars, otherVars>>

\* the records are replaced by an empty list
ClearPool ==
    /\ pool # <<>>
    /\ pool' = <<>>
    /\ latencies' = <<>>
    /\ stats' = PercentileSet(<<>>)
    /\ UNCHANGED <<phaseVars, heatMapVars, chartVars, liveVars, otherVars>>

NextPool ==
    \/ \E v \in SampleValues : Measure(v)
    \/ ClearPool

SpecPercentile == InitPool /\ [][NextPool]_vars

(***************************************************************************)
(* Aggregated shard heat map over a list of records.                       *)
(***************************************************************************)
\* shards of the mock data and the node each of them stays on
ShardIds == {"products-0", "products-10", "products-3"}

NodeOf ==
    [id \in {"products-0", "products-3"} |-> "node-1"]
    @@ [id \in {"products-10"} |-> "node-2"]

\* a shard observation without percentiles and without a distribution
LegacyShard(shardId, latency, status) ==
    [shardId |-> shardId, nodeId |-> NodeOf[shardId],
     latency |-> Int2Num(latency), status |-> status, docCount |-> 1000,
     p50Latency |-> Undefined, p90Latency |-> Undefined,
     p95Latency |-> Undefined, p99Latency |-> Undefined,
     hasDistribution |-> FALSE, latencyDistribution |-> <<>>]

\* a shard observation of the mock data: its distribution and percentiles
\* are those of generateShardLatencyDistribution
SampledShard(shardId, latency, status, measurements) ==
    LET distribution ==
            generateShardLatencyDistribution(
                [i \in 1..Len(measurements) |-> Int2Num(measurements[i])])
    IN  [shardId |-> shardId, nodeId |-> NodeOf[shardId],
         latency |-> Int2Num(latency), status |-> status, docCount |-> 1000,
         p50Latency |-> distribution.p50, p90Latency |-> distribution.p90,
         p95Latency |-> distribution.p95, p99Latency |-> distribution.p99,
         hasDistribution |-> TRUE,
         latencyDistribution |-> distribution.latencies]

\* a shard observation that carries the percentiles its source measured
\* and no distribution
SummarisedShard(shardId, latency, status, p50, p90, p95, p99) ==
    [shardId |-> shardId, nodeId |-> NodeOf[shardId],
     latency |-> Int2Num(latency), status |-> status, docCount |-> 1000,
     p50Latency |-> Int2Num(p50), p90Latency |-> Int2Num(p90),
     p95Latency |-> Int2Num(p95), p99Latency |-> Int2Num(p99),
     hasDistribution |-> FALSE, latencyDistribution |-> <<>>]

\* a shard observation that carries the percentiles its source measured
\* and a distribution without samples
DrainedShard(shardId, latency, status, p50, p90, p95, p99) ==
    [shardId |-> shardId, nodeId |-> NodeOf[shardId],
     latency |-> Int2Num(latency), status |-> status, docCount |-> 1000,
     p50Latency |-> Int2Num(p50), p90Latency |-> Int2Num(p90),
     p95Latency |-> Int2Num(p95), p99Latency |-> Int2Num(p99),
     hasDistribution |-> TRUE, latencyDistribution |-> <<>>]

\* the observations a record may hold of one shard
ShardObservations(shardId) ==
    {LegacyShard(shardId, 100, "success"),
     LegacyShard(shardId, 5000, "timeout"),
     SampledShard(shardId, 200, "success", <<300, 100>>),
     SampledShard(shardId, 5000, "success", <<4000, 6000>>),
     SampledShard(shardId, 100, "success", <<>>),
     SummarisedShard(shardId, 100, "success", 200, 300, 400, 5000),
     DrainedShard(shardId, 9000, "timeout", 9000, 11000, 11500, 12000)}

\* the shardPerformance lists of a record: each shard at most once
ShardLists ==
    {<<>>}
    \cup {<<sh>> : sh \in UNION {ShardObservations(id) : id \in ShardIds}}
    \cup {<<s1, s2>> : s1 \in ShardObservations("products-0"),
                       s2 \in ShardObservations("products-3")}
    \cup UNION {{<<s1, s2>>, <<s2, s1>>} :
                   s1 \in ShardObservations("products-10"),
                   s2 \in ShardObservations("products-0")
                          \cup ShardObservations("products-3")}

Init ==
    /\ PoolIdle
    /\ PhasesIdle
    /\ HeatMapIdle
    /\ ChartIdle
    /\ LiveIdle
    /\ FormatIdle
    /\ InsightsIdle

\* the memos of a render with the given records
Render(recs) ==
    IF AggregatedShardDataThrows(recs)
    THEN /\ renderThrew' = TRUE
         /\ aggregatedShardData' = <<>>
         /\ aggregatedNodeData' = <<>>
    ELSE /\ renderThrew' = FALSE
         /\ aggregatedShardData' = aggregatedShardDataOf(recs)
         /\ aggregatedNodeData' =
                aggregatedNodeDataOf(recs, aggregatedShardData')

\* one more record of the loaded data is selected and the map renders
SelectRecord(shards) ==
    /\ Len(records) < MaxRecords
    /\ Len(shards) <= MaxShards
    /\ records' = Append(records, LoadedRecord(shards))
    /\ Render(records')
    /\ UNCHANGED <<poolVars, phaseVars, chartVars, liveVars, otherVars>>

\* the selection is cleared and the map renders
ClearRecords ==
    /\ records # <<>>
    /\ records' = <<>>
    /\ Render(records')
    /\ UNCHANGED <<poolVars, phaseVars, chartVars, liveVars, otherVars>>

Next ==
    \/ \E shards \in ShardLists : SelectRecord(shards)
    \/ ClearRecords

Spec == Init /\ [][Next]_vars

(***************************************************************************)
(* Historical latency chart of one record.                                 *)
(***************************************************************************)
\* latencies of a historical data point (ms)
HistoryLatencies == {-1, 4}

InitChart ==
    /\ PoolIdle
    /\ PhasesIdle
    /\ HeatMapIdle
    /\ ChartIdle
    /\ LiveIdle
    /\ FormatIdle
    /\ InsightsIdle

\* the record gains its next hourly data point and the chart renders
ExtendHistory(latency) ==
    /\ Len(historicalData) < MaxHistory
    /\ historicalData' =
           Append(historicalData,
                  [timestamp |-> Len(historicalData) + 1,
                   latency |-> Int2Num(latency)])
    /\ anomalyBands' = calculateAnomalyBands(latencyDataOf(historicalData'))
    /\ anomalies' = anomaliesOf(latencyDataOf(historicalData'), anomalyBands')
    /\ UNCHANGED <<poolVars, phaseVars, heatMapVars, liveVars, otherVars>>

NextChart == \E latency \in HistoryLatencies : ExtendHistory(latency)

SpecChart == InitChart /\ [][NextChart]_vars

(***************************************************************************)
(* In-flight queries page: auto-refresh, fetches and what they display.    *)
(* Time advances in ticks of TickMs.  A change of state, the render and    *)
(* the cleanup and run of the auto-refresh effect that follow it are one   *)
(* step.                                                                   *)
(***************************************************************************)
TickMs == 500

\* the options of the refresh-interval selector that the model uses (ms)
IntervalOptions == {5000, 10000}

\* live queries of a response
RunningQuery ==
    [id |-> "task-1", timestamp |-> 1, node_id |-> "node-1",
     indices |-> "logs", latency |-> 500, cpu |-> 200, memory |-> 64,
     is_cancelled |-> FALSE]

CancelledQuery == [RunningQuery EXCEPT !.is_cancelled = TRUE]

OtherQuery ==
    [id |-> "task-2", timestamp |-> 2, node_id |-> "node-2",
     indices |-> NoMatch, latency |-> 1500, cpu |-> Missing,
     memory |-> Missing, is_cancelled |-> FALSE]

IdleQuery ==
    [id |-> "task-3", timestamp |-> 3, node_id |-> "node-1",
     indices |-> "", latency |-> Missing, cpu |-> Missing,
     memory |-> Missing, is_cancelled |-> FALSE]

\* what a call of retrieveLiveQueries may return: a list of live queries,
\* an error with or without a message, a response without live_queries,
\* or an exception
Succeeded(list) == [kind |-> "ok", error |-> "", live_queries |-> list]

Failed(message) == [kind |-> "error", error |-> message, live_queries |-> <<>>]

Malformed == [kind |-> "no list", error |-> "", live_queries |-> <<>>]

Thrown == [kind |-> "thrown", error |-> "", live_queries |-> <<>>]

Outcomes ==
    {Succeeded(<<>>), Succeeded(<<RunningQuery>>),
     Succeeded(<<CancelledQuery, OtherQuery>>), Succeeded(<<IdleQuery>>),
     Failed("Request failed"), Failed(""), Malformed, Thrown}

InitLive ==
    /\ PoolIdle
    /\ PhasesIdle
    /\ HeatMapIdle
    /\ ChartIdle
    /\ LiveIdle
    /\ FormatIdle
    /\ InsightsIdle

\* a finally block that leaves isFetching.current as it is
GuardKept == TRUE

\* the finally block of fetchliveQueriesSafe: isFetching.current = false
GuardReleased == FALSE

\* a call of retrieveLiveQueries(core, dataSource?.id) that has just been
\* made: by fetchliveQueriesSafe, under withTimeout, or by fetchliveQueries
\* alone; source is the dataSource.id of the render whose fetchliveQueries
\* makes the call
retrieveLiveQueries(awaited, source) ==
    [guarded |-> awaited, dataSource |-> source]

\* the calls that are outstanding once one more has been issued
Issue(pending, call) ==
    IF Len(pending) < MaxOutstanding THEN Append(pending, call)
    ELSE Append(Tail(pending), call)

\* fetchliveQueriesSafe() of a render whose refreshInterval is interval and
\* whose dataSource.id is source
fetchliveQueriesSafe(interval, source, step) ==
    IF isFetching
    THEN /\ lastStep' = "other"
         /\ UNCHANGED <<isFetching, timeoutTimer, outstanding>>
    ELSE /\ isFetching' = TRUE
         /\ outstanding' = Issue(outstanding, retrieveLiveQueries(TRUE, source))
         /\ timeoutTimer' = [delay |-> (interval - 500) \div TickMs,
                             left |-> (interval - 500) \div TickMs]
         /\ lastStep' = step

\* an effect whose cleanup leaves the interval timer running
EffectWithoutCleanup(timers, hasInterval) == timers

\* the cleanup of the last run of the effect: clearInterval(interval) when
\* that run had set one
EffectCleanup(timers, hasInterval) ==
    IF hasInterval THEN SubSeq(timers, 1, Len(timers) - 1) ELSE timers

\* the auto-refresh effect: the cleanup of its last run, then its run in a
\* render with the given autoRefreshEnabled and refreshInterval and the
\* dataSource of the context; the callback of the timer is of that render
AutoRefreshEffect(enabled, interval, step) ==
    /\ fetchliveQueriesSafe(interval, dataSource, step)
    /\ LET kept == EffectCleanup(intervalTimers, effectHasInterval)
       IN  intervalTimers' =
               IF enabled
               THEN Append(kept, [period |-> interval \div TickMs,
                                  left |-> interval \div TickMs,
                                  dataSource |-> dataSource])
               ELSE kept
    /\ effectHasInterval' = enabled

\* the page is mounted
Mount ==
    /\ ~mounted
    /\ mounted' = TRUE
    /\ AutoRefreshEffect(autoRefreshEnabled, refreshInterval, "mount fetch")
    /\ UNCHANGED <<autoRefreshEnabled, refreshInterval, displayVars>>
    /\ UNCHANGED <<lastFetchEmpty, selectionVars>>
    /\ UNCHANGED dataSource
    /\ UNCHANGED <<poolVars, phaseVars, heatMapVars, chartVars, otherVars>>

\* the user flips the Auto-refresh switch
ToggleAutoRefresh ==
    /\ mounted
    /\ autoRefreshEnabled' = ~autoRefreshEnabled
    /\ AutoRefreshEffect(autoRefreshEnabled', refreshInterval, "effect fetch")
    /\ UNCHANGED <<mounted, refreshInterval, displayVars>>
    /\ UNCHANGED <<lastFetchEmpty, selectionVars>>
    /\ UNCHANGED dataSource
    /\ UNCHANGED <<poolVars, phaseVars, heatMapVars, chartVars, otherVars>>

\* the user picks another option of the refresh-interval selector, which is
\* disabled while auto-refresh is off
SelectInterval(interval) ==
    /\ mounted
    /\ autoRefreshEnabled
    /\ interval # refreshInterval
    /\ refreshInterval' = interval
    /\ AutoRefreshEffect(autoRefreshEnabled, interval, "effect fetch")
    /\ UNCHANGED <<mounted, autoRefreshEnabled, displayVars>>
    /\ UNCHANGED <<lastFetchEmpty, selectionVars>>
    /\ UNCHANGED dataSource
    /\ UNCHANGED <<poolVars, phaseVars, heatMapVars, chartVars, otherVars>>

\* an interval timer fires: its callback is the fetchliveQueriesSafe of the
\* render that created it
IntervalFires(k) ==
    /\ k \in 1..Len(intervalTimers)
    /\ intervalTimers[k].left = 0
    /\ intervalTimers' =
           [intervalTimers EXCEPT ![k].left = intervalTimers[k].period]
    /\ fetchliveQueriesSafe(intervalTimers[k].period * TickMs,
                            intervalTimers[k].dataSource, "timer fetch")
    /\ UNCHANGED <<mounted, autoRefreshEnabled, refreshInterval,
                   effectHasInterval, displayVars>>
    /\ UNCHANGED <<lastFetchEmpty, selectionVars>>
    /\ UNCHANGED dataSource
    /\ UNCHANGED <<poolVars, phaseVars, heatMapVars, chartVars, otherVars>>

\* the timer of withTimeout fires: the promise rejects with 'Timed out',
\* fetchliveQueriesSafe logs it and releases the guard; the call of
\* retrieveLiveQueries goes on
TimeoutFires ==
    /\ timeoutTimer # NoTimer
    /\ timeoutTimer.left = 0
    /\ timeoutTimer' = NoTimer
    /\ isFetching' = GuardReleased
    /\ outstanding' = [i \in 1..Len(outstanding) |->
                           [outstanding[i] EXCEPT !.guarded = FALSE]]
    /\ lastStep' = "other"
    /\ UNCHANGED <<mounted, autoRefreshEnabled, refreshInterval,
                   intervalTimers, effectHasInterval, displayVars>>
    /\ UNCHANGED <<lastFetchEmpty, selectionVars>>
    /\ UNCHANGED dataSource
    /\ UNCHANGED <<poolVars, phaseVars, heatMapVars, chartVars, otherVars>>

\* TickMs pass while no timer is due
Tick ==
    /\ mounted
    /\ \A k \in 1..Len(intervalTimers) : intervalTimers[k].left > 0
    /\ timeoutTimer = NoTimer \/ timeoutTimer.left > 0
    /\ intervalTimers' =
           [k \in 1..Len(intervalTimers) |->
               [intervalTimers[k] EXCEPT !.left = @ - 1]]
    /\ timeoutTimer' = IF timeoutTimer = NoTimer THEN NoTimer
                       ELSE [timeoutTimer EXCEPT !.left = @ - 1]
    /\ lastStep' = "other"
    /\ UNCHANGED <<mounted, autoRefreshEnabled, refreshInterval,
                   effectHasInterval, isFetching, outstanding, displayVars>>
    /\ UNCHANGED <<lastFetchEmpty, selectionVars>>
    /\ UNCHANGED dataSource
    /\ UNCHANGED <<poolVars, phaseVars, heatMapVars, chartVars, otherVars>>

\* const liveQueries = query?.response?.live_queries ?? []
liveQueriesOf(queryState) ==
    IF queryState = NoQuery THEN <<>> ELSE queryState[1]

\* itemId of the table
itemId(row) == <<row.id, row.timestamp>>

\* the selection that the table keeps when its items change: the selected
\* rows whose itemId is still among the items
PrunedSelection(selection, items) ==
    {selected \in selection :
        \E i \in 1..Len(items) : itemId(items[i]) = itemId(selected)}

\* the table gets new items: it keeps the selected rows that are still
\* there and calls onSelectionChange when some are not
TableReceives(items) ==
    LET kept == PrunedSelection(tableSelection, items)
    IN  /\ tableSelection' = kept
        /\ selectedItems' = IF kept # tableSelection THEN kept
                            ELSE selectedItems

\* the rest of fetchliveQueries once retrieveLiveQueries has returned
ShowOutcome(outcome) ==
    IF outcome.kind = "error"
    THEN LET errorMessage == IF outcome.error # "" THEN outcome.error
                             ELSE "Failed to load live queries"
         IN  /\ nodeChartError' = errorMessage
             /\ indexChartError' = errorMessage
             /\ query' = NoQuery
             /\ TableReceives(<<>>)
             /\ UNCHANGED <<nodeCounts, indexCounts>>
    ELSE IF outcome.kind = "ok"
    THEN LET parsedQueries == parsedQueriesOf(outcome.live_queries)
         IN  /\ query' = LoadedQuery(parsedQueries)
             /\ nodeCounts' = nodeCountsOf(parsedQueries)
             /\ indexCounts' = indexCountsOf(parsedQueries)
             /\ TableReceives(parsedQueries)
             /\ UNCHANGED <<nodeChartError, indexChartError>>
    ELSE UNCHANGED <<displayVars, selectedItems, tableSelection>>

\* the sequence without its element i
Without(seq, i) == SubSeq(seq, 1, i - 1) \o SubSeq(seq, i + 1, Len(seq))

\* a call of retrieveLiveQueries returns or throws; when withTimeout still
\* waits for it, its timer is cleared and the guard is released
Complete(i, outcome) ==
    /\ i \in 1..Len(outstanding)
    /\ outstanding' = Without(outstanding, i)
    /\ ShowOutcome(outcome)
    /\ IF outstanding[i].guarded
       THEN timeoutTimer' = NoTimer /\ isFetching' = GuardReleased
       ELSE UNCHANGED <<timeoutTimer, isFetching>>
    /\ lastStep' = "other"
    /\ UNCHANGED <<mounted, autoRefreshEnabled, refreshInterval,
                   intervalTimers, effectHasInterval>>
    /\ lastFetchEmpty' = (outcome.kind = "ok" /\ outcome.live_queries = <<>>)
    /\ UNCHANGED cancelPosts
    /\ UNCHANGED dataSource
    /\ UNCHANGED <<poolVars, phaseVars, heatMapVars, chartVars, otherVars>>

\* a call of retrieveLiveQueries turns out never to return
Hang(i) ==
    /\ i \in 1..Len(outstanding)
    /\ outstanding' = Without(outstanding, i)
    /\ lastStep' = "other"
    /\ UNCHANGED <<mounted, autoRefreshEnabled, refreshInterval,
                   intervalTimers, effectHasInterval, isFetching,
                   timeoutTimer, displayVars>>
    /\ UNCHANGED <<lastFetchEmpty, selectionVars>>
    /\ UNCHANGED dataSource
    /\ UNCHANGED <<poolVars, phaseVars, heatMapVars, chartVars, otherVars>>

\* the user clicks Refresh: fetchliveQueries() without the guard
Refresh ==
    /\ mounted
    /\ outstanding' = Issue(outstanding, retrieveLiveQueries(FALSE, dataSource))
    /\ lastStep' = "manual fetch"
    /\ UNCHANGED <<mounted, autoRefreshEnabled, refreshInterval,
                   intervalTimers, effectHasInterval, isFetching,
                   timeoutTimer, displayVars>>
    /\ UNCHANGED <<lastFetchEmpty, selectionVars>>
    /\ UNCHANGED dataSource
    /\ UNCHANGED <<poolVars, phaseVars, heatMapVars, chartVars, otherVars>>

\* the history is not recorded
NotRecorded == UNCHANGED historyVars

NextLive ==
    \/ Mount /\ NotRecorded
    \/ ToggleAutoRefresh /\ NotRecorded
    \/ \E interval \in IntervalOptions : SelectInterval(interval) /\ NotRecorded
    \/ \E k \in 1..Len(intervalTimers) : IntervalFires(k) /\ NotRecorded
    \/ TimeoutFires /\ NotRecorded
    \/ Tick /\ NotRecorded
    \/ \E i \in 1..Len(outstanding) : \E outcome \in Outcomes :
           Complete(i, outcome) /\ NotRecorded
    \/ \E i \in 1..Len(outstanding) : Hang(i) /\ NotRecorded
    \/ Refresh /\ NotRecorded

SpecLive == InitLive /\ [][NextLive]_vars

\* time passes and due timers fire
FairSpecLive ==
    /\ SpecLive
    /\ WF_vars(Mount /\ NotRecorded)
    /\ WF_vars(Tick /\ NotRecorded)
    /\ WF_vars(TimeoutFires /\ NotRecorded)
    /\ WF_vars(\E k \in 1..Len(intervalTimers) : IntervalFires(k) /\ NotRecorded)

(***************************************************************************)
(* Claims about the shard and node aggregators (Spec).                     *)
(***************************************************************************)
PercentileFields == {"p50Latency", "p90Latency", "p95Latency", "p99Latency"}

\* the elements of a sequence
Range(seq) == {seq[i] : i \in 1..Len(seq)}

\* the observations the records hold of one shard, and of one node
ShardObservationsIn(recs, shardId) ==
    {sh \in Range(AllShards(recs)) : sh.shardId = shardId}

NodeObservationsIn(recs, nodeId) ==
    {nd \in Range(AllNodes(recs)) : nd.nodeId = nodeId}

\* p50 <= p90 <= p95 <= p99 of a shard or node
PercentilesOrdered(x) ==
    /\ Leq(x.p50Latency, x.p90Latency)
    /\ Leq(x.p90Latency, x.p95Latency)
    /\ Leq(x.p95Latency, x.p99Latency)

\* C2: in every loaded record, the avgLatency that
\* generateNodePerformanceFromShards reports for a node is at least 0.8 times
\* the p99Latency of every shard of the record on that node.
C2_NodeFloor ==
    \A rec \in Range(records) :
        \A node \in Range(rec.nodePerformance) :
            \A shard \in Range(rec.shardPerformance) :
                (shard.nodeId = node.nodeId /\ shard.p99Latency # Undefined)
                => Geq(node.avgLatency, Mul(Num(8, 10), shard.p99Latency))

\* C3: in the aggregated view, the avgLatency of every node of
\* aggregatedNodeData is at least 0.8 times the p99Latency of every entry of
\* aggregatedShardData on that node.
C3_AggregatedNodeFloor ==
    \A node \in Range(aggregatedNodeData) :
        \A shard \in Range(aggregatedShardData) :
            shard.nodeId = node.nodeId
            => Geq(node.avgLatency, Mul(Num(8, 10), shard.p99Latency))

\* C4: aggregation never throws and never yields NaN, whatever pools of
\* samples are empty: the render does not throw, no latency of an aggregated
\* shard, of an aggregated node or of a generated node is NaN, and an empty
\* list of records gives empty aggregates.
C4_NoThrowNoNaN ==
    /\ ~renderThrew
    /\ records = <<>> => aggregatedShardData = <<>> /\ aggregatedNodeData = <<>>
    /\ \A shard \in Range(aggregatedShardData) :
           /\ \A f \in PercentileFields : ~IsNaN(shard[f])
           /\ ~IsNaN(shard.avgLatency) /\ ~IsNaN(shard.medianLatency)
           /\ ~IsNaN(shard.maxLatency) /\ ~IsNaN(shard.minLatency)
           /\ ~IsNaN(shard.successRate) /\ ~IsNaN(shard.avgDocCount)
    /\ \A node \in Range(aggregatedNodeData) \cup Range(AllNodes(records)) :
           /\ \A f \in PercentileFields : ~IsNaN(node[f])
           /\ ~IsNaN(node.avgLatency)

\* C5: every percentile set the aggregators produce is ordered: min <= p50
\* <= p90 <= p95 <= p99 <= max for each aggregated shard, p50 <= p90 <= p95
\* <= p99 for each aggregated node and each generated node.
C5_PercentilesOrdered ==
    /\ \A shard \in Range(aggregatedShardData) :
           /\ Leq(shard.minLatency, shard.p50Latency)
           /\ PercentilesOrdered(shard)
           /\ Leq(shard.p99Latency, shard.maxLatency)
    /\ \A node \in Range(aggregatedNodeData) \cup Range(AllNodes(records)) :
           PercentilesOrdered(node)

\* C6: for each aggregated shard and node and each percentile, the aggregate
\* reports a value one of its observations carries whenever one of them
\* carries that percentile, and the percentile of the pooled samples
\* otherwise.
C6_SourcePercentilesPreferred ==
    /\ \A shard \in Range(aggregatedShardData) : \A f \in PercentileFields :
           LET carriers == {sh \in ShardObservationsIn(records, shard.shardId) :
                               sh[f] # Undefined}
               data == ShardData(AllShards(records), shard.shardId)
               pooled == SortAscending([i \in 1..Len(data) |-> data[i].latency])
               p == CHOOSE q \in {Pct(50), Pct(90), Pct(95), Pct(99)} :
                        f = "p" \o ToString(q.n * (100 \div q.d)) \o "Latency"
           IN  IF carriers # {} THEN \E sh \in carriers : shard[f] = sh[f]
               ELSE shard[f] = percentile(pooled, p)
    /\ \A node \in Range(aggregatedNodeData) : \A f \in PercentileFields :
           \E nd \in NodeObservationsIn(records, node.nodeId) : node[f] = nd[f]

\* C12: the status of a generated node follows its floored avgLatency:
\* failed above 8000 ms, degraded above 4000 ms and up to 8000 ms, and a
\* node with a shard whose p99Latency exceeds 10000 ms is failed.
C12_NodeHealthThresholds ==
    \A rec \in Range(records) :
        \A node \in Range(rec.nodePerformance) :
            /\ Gt(node.avgLatency, Int2Num(8000)) => node.status = "failed"
            /\ (Gt(node.avgLatency, Int2Num(4000))
                  /\ Leq(node.avgLatency, Int2Num(8000)))
               => node.status = "degraded"
            /\ \A shard \in Range(rec.shardPerformance) :
                   (/\ shard.nodeId = node.nodeId
                    /\ shard.p99Latency # Undefined
                    /\ Gt(shard.p99Latency, Int2Num(10000)))
                   => node.status = "failed"

(***************************************************************************)
(* The table of the in-flight queries page: the selection of rows, the     *)
(* bulk cancel of the selected rows and the Cancel action of a row,        *)
(* between two firings of the timers.  A row can be selected when          *)
(* selection.selectable allows it; the table then keeps the row object in  *)
(* its selection for as long as a row of the same itemId is among its      *)
(* items.                                                                  *)
(***************************************************************************)
\* selection.selectable and the available of the Cancel action
selectable(item) == item.is_cancelled # TRUE

\* the row of the task is shown with the status Cancelled
ShownCancelled(id) ==
    \E i \in 1..Len(liveQueriesOf(query)) :
        /\ liveQueriesOf(query)[i].id = id
        /\ liveQueriesOf(query)[i].is_cancelled = TRUE

\* httpClient.post(API_ENDPOINTS.CANCEL_TASK(item.id)) for each of the items
PostCancel(items) ==
    cancelPosts' = cancelPosts \cup
        {[id |-> item.id, shownCancelled |-> ShownCancelled(item.id)] :
            item \in items}

\* the user clicks the checkbox of row i, which is enabled when the row is
\* selectable
ToggleRow(i) ==
    /\ mounted
    /\ i \in 1..Len(liveQueriesOf(query))
    /\ LET item == liveQueriesOf(query)[i]
           others == {selected \in tableSelection :
                         itemId(selected) # itemId(item)}
       IN  /\ selectable(item)
           /\ tableSelection' = IF others # tableSelection THEN others
                                ELSE tableSelection \cup {item}
           /\ selectedItems' = tableSelection'
    /\ lastStep' = "other"
    /\ UNCHANGED <<mounted, autoRefreshEnabled, refreshInterval,
                   intervalTimers, effectHasInterval, isFetching,
                   timeoutTimer, outstanding, displayVars>>
    /\ UNCHANGED <<lastFetchEmpty, cancelPosts>>
    /\ UNCHANGED dataSource
    /\ UNCHANGED <<poolVars, phaseVars, heatMapVars, chartVars, otherVars>>

\* the user clicks 'Cancel n queries', shown while selectedItems is not
\* empty
BulkCancel ==
    /\ mounted
    /\ selectedItems # {}
    /\ PostCancel(selectedItems)
    /\ selectedItems' = {}
    /\ lastStep' = "other"
    /\ UNCHANGED <<mounted, autoRefreshEnabled, refreshInterval,
                   intervalTimers, effectHasInterval, isFetching,
                   timeoutTimer, outstanding, displayVars>>
    /\ UNCHANGED <<lastFetchEmpty, tableSelection>>
    /\ UNCHANGED dataSource
    /\ UNCHANGED <<poolVars, phaseVars, heatMapVars, chartVars, otherVars>>

\* the user clicks the Cancel action of row i, available when the row is
\* not cancelled: the request is posted and, when it succeeds,
\* fetchliveQueries() follows
CancelRow(i, posted) ==
    /\ mounted
    /\ i \in 1..Len(liveQueriesOf(query))
    /\ selectable(liveQueriesOf(query)[i])
    /\ PostCancel({liveQueriesOf(query)[i]})
    /\ IF posted
       THEN /\ outstanding' = Issue(outstanding, retrieveLiveQueries(FALSE, dataSource))
            /\ lastStep' = "manual fetch"
       ELSE /\ lastStep' = "other"
            /\ UNCHANGED outstanding
    /\ UNCHANGED <<mounted, autoRefreshEnabled, refreshInterval,
                   intervalTimers, effectHasInterval, isFetching,
                   timeoutTimer, displayVars>>
    /\ UNCHANGED <<lastFetchEmpty, selectedItems, tableSelection>>
    /\ UNCHANGED dataSource
    /\ UNCHANGED <<poolVars, phaseVars, heatMapVars, chartVars, otherVars>>

NextCancel ==
    \/ Mount /\ NotRecorded
    \/ Refresh /\ NotRecorded
    \/ \E i \in 1..Len(outstanding) : \E outcome \in Outcomes :
           Complete(i, outcome) /\ NotRecorded
    \/ \E i \in 1..Len(outstanding) : Hang(i) /\ NotRecorded
    \/ \E i \in 1..Len(liveQueriesOf(query)) : ToggleRow(i) /\ NotRecorded
    \/ BulkCancel /\ NotRecorded
    \/ \E i \in 1..Len(liveQueriesOf(query)) : \E posted \in BOOLEAN :
           CancelRow(i, posted) /\ NotRecorded

SpecCancel == InitLive /\ [][NextCancel]_vars

(***************************************************************************)
(* The data source of the in-flight queries page.                          *)
(***************************************************************************)
\* the user picks another data source in the menu: the menu calls
\* setDataSource, and onSelectedDataSource, whose fetchliveQueries() reads
\* the dataSource of the render that made the callback: closure is the id
\* from before the change when the menu calls it at once, and the new id
\* when the menu calls it after the next render.  The auto-refresh effect
\* does not depend on dataSource and does not run.
SelectDataSource(id, closure) ==
    /\ mounted
    /\ id \in DataSourceIds
    /\ id # dataSource
    /\ closure \in {dataSource, id}
    /\ dataSource' = id
    /\ outstanding' = Issue(outstanding, retrieveLiveQueries(FALSE, closure))
    /\ lastStep' = "manual fetch"
    /\ UNCHANGED <<mounted, autoRefreshEnabled, refreshInterval,
                   intervalTimers, effectHasInterval, isFetching,
                   timeoutTimer, displayVars>>
    /\ UNCHANGED <<lastFetchEmpty, selectionVars>>
    /\ UNCHANGED <<poolVars, phaseVars, heatMapVars, chartVars, otherVars>>

\* what retrieveLiveQueries returns in the runs that record the history
SourceOutcomes == {Succeeded(<<RunningQuery>>), Failed("")}

\* fetchliveQueries sets what the page shows after these returns
Shown(outcome) == outcome.kind \in {"ok", "error"}

\* the history once call i has returned: when fetchliveQueries shows what
\* it returned, the calls issued before it are superseded
Superseding(history, i, outcome) ==
    [k \in 1..Len(history) |->
        IF k < i /\ Shown(outcome) THEN [history[k] EXCEPT !.superseded = TRUE]
        ELSE history[k]]

\* the history of a step that calls fetchliveQueriesSafe(), which makes a
\* call when the guard is free
RecordSafe ==
    /\ callHistory' =
           IF isFetching THEN callHistory
           ELSE Issue(callHistory, [safe |-> TRUE, superseded |-> FALSE])
    /\ UNCHANGED displayStale

\* the history of a step that calls fetchliveQueries()
RecordDirect ==
    /\ callHistory' = Issue(callHistory, [safe |-> FALSE, superseded |-> FALSE])
    /\ UNCHANGED displayStale

\* the history of the return of call i
RecordReturn(i, outcome) ==
    /\ callHistory' = Without(Superseding(callHistory, i, outcome), i)
    /\ displayStale' = IF Shown(outcome) THEN callHistory[i].superseded
                       ELSE displayStale

\* the history of a step after which call i never returns
RecordHang(i) ==
    /\ callHistory' = Without(callHistory, i)
    /\ UNCHANGED displayStale

NextSource ==
    \/ Mount /\ RecordSafe
    \/ \E k \in 1..Len(intervalTimers) : IntervalFires(k) /\ RecordSafe
    \/ TimeoutFires /\ NotRecorded
    \/ Tick /\ NotRecorded
    \/ \E i \in 1..Len(outstanding) : \E outcome \in SourceOutcomes :
           Complete(i, outcome) /\ RecordReturn(i, outcome)
    \/ \E i \in 1..Len(outstanding) : Hang(i) /\ RecordHang(i)
    \/ Refresh /\ RecordDirect
    \/ \E id \in DataSourceIds : \E closure \in DataSourceIds :
           SelectDataSource(id, closure) /\ RecordDirect

SpecSource == InitLive /\ [][NextSource]_vars

(***************************************************************************)
(* The Intelligent Insights page and its hook useLangGraph.  Threads and   *)
(* assistants are their ids.  A call of langGraphAPI is outstanding under  *)
(* the name of the callback that made it.                                  *)
(***************************************************************************)
\* what langGraphAPI.searchThreads and searchAssistants may return
ThreadLists == {<<>>, <<"thread-1">>, <<"thread-2", "thread-1">>}

AssistantLists == {<<>>, <<"assistant-1">>, <<"assistant-2", "assistant-1">>}

\* what langGraphAPI.createThread may return
NewThreads == {"thread-1", "thread-2"}

InitInsights ==
    /\ PoolIdle
    /\ PhasesIdle
    /\ HeatMapIdle
    /\ ChartIdle
    /\ LiveIdle
    /\ FormatIdle
    /\ InsightsIdle

\* what the main panel shows
renderMainContent ==
    IF currentAssistant = NoAssistant THEN "No assistants available"
    ELSE IF createNewThreadLoading THEN "Creating new conversation..."
    ELSE IF currentThread = NoThread
    THEN "Welcome to Intelligent Insights Agent"
    ELSE "Conversation"

\* the page is mounted: the effect calls loadThreads() and loadAssistants()
MountInsights ==
    /\ ~insightsMounted
    /\ insightsMounted' = TRUE
    /\ insightsCalls' = {"loadThreads", "loadAssistants"}
    /\ UNCHANGED <<threads, currentThread, assistants, currentAssistant,
                   createNewThreadLoading>>
    /\ UNCHANGED <<poolVars, phaseVars, heatMapVars, chartVars, liveVars,
                   formatVars>>

\* searchThreads of loadThreads returns (ok) or throws
loadThreads(ok, threadList) ==
    /\ "loadThreads" \in insightsCalls
    /\ insightsCalls' = insightsCalls \ {"loadThreads"}
    /\ threads' = IF ok THEN threadList ELSE threads
    /\ UNCHANGED <<insightsMounted, currentThread, assistants,
                   currentAssistant, createNewThreadLoading>>
    /\ UNCHANGED <<poolVars, phaseVars, heatMapVars, chartVars, liveVars,
                   formatVars>>

\* searchAssistants of loadAssistants returns (ok) or throws
loadAssistants(ok, assistantList) ==
    /\ "loadAssistants" \in insightsCalls
    /\ insightsCalls' = insightsCalls \ {"loadAssistants"}
    /\ assistants' = IF ok THEN assistantList ELSE assistants
    /\ currentAssistant' =
           IF ~ok \/ currentAssistant # NoAssistant THEN currentAssistant
           ELSE IF Len(assistantList) > 0 THEN assistantList[1]
           ELSE NoAssistant
    /\ UNCHANGED <<insightsMounted, threads, currentThread,
                   createNewThreadLoading>>
    /\ UNCHANGED <<poolVars, phaseVars, heatMapVars, chartVars, liveVars,
                   formatVars>>

\* the user clicks 'New Conversation' or 'Start New Conversation', which
\* are loading buttons while createNewThreadLoading
createNewThread ==
    /\ insightsMounted
    /\ ~createNewThreadLoading
    /\ createNewThreadLoading' = TRUE
    /\ insightsCalls' = insightsCalls \cup {"createNewThread"}
    /\ UNCHANGED <<insightsMounted, threads, currentThread, assistants,
                   currentAssistant>>
    /\ UNCHANGED <<poolVars, phaseVars, heatMapVars, chartVars, liveVars,
                   formatVars>>

\* createThread of createNewThread returns (ok), and loadThreads() is
\* awaited, or throws
createThreadReturns(ok, newThread) ==
    /\ "createNewThread" \in insightsCalls
    /\ IF ok
       THEN /\ currentThread' = newThread
            /\ insightsCalls' = (insightsCalls \ {"createNewThread"})
                                   \cup {"createNewThread.loadThreads"}
            /\ UNCHANGED createNewThreadLoading
       ELSE /\ insightsCalls' = insightsCalls \ {"createNewThread"}
            /\ createNewThreadLoading' = FALSE
            /\ UNCHANGED currentThread
    /\ UNCHANGED <<insightsMounted, threads, assistants, currentAssistant>>
    /\ UNCHANGED <<poolVars, phaseVars, heatMapVars, chartVars, liveVars,
                   formatVars>>

\* the loadThreads() of createNewThread is done and the finally block runs
createNewThreadEnds(ok, threadList) ==
    /\ "createNewThread.loadThreads" \in insightsCalls
    /\ insightsCalls' = insightsCalls \ {"createNewThread.loadThreads"}
    /\ threads' = IF ok THEN threadList ELSE threads
    /\ createNewThreadLoading' = FALSE
    /\ UNCHANGED <<insightsMounted, currentThread, assistants,
                   currentAssistant>>
    /\ UNCHANGED <<poolVars, phaseVars, heatMapVars, chartVars, liveVars,
                   formatVars>>

\* the user clicks thread i of the sidebar
selectThread(i) ==
    /\ insightsMounted
    /\ i \in 1..Len(threads)
    /\ currentThread' = threads[i]
    /\ UNCHANGED <<insightsMounted, threads, assistants, currentAssistant,
                   createNewThreadLoading, insightsCalls>>
    /\ UNCHANGED <<poolVars, phaseVars, heatMapVars, chartVars, liveVars,
                   formatVars>>

NextInsights ==
    \/ MountInsights
    \/ \E ok \in BOOLEAN : \E threadList \in ThreadLists :
           loadThreads(ok, threadList)
    \/ \E ok \in BOOLEAN : \E assistantList \in AssistantLists :
           loadAssistants(ok, assistantList)
    \/ createNewThread
    \/ \E ok \in BOOLEAN : \E newThread \in NewThreads :
           createThreadReturns(ok, newThread)
    \/ \E ok \in BOOLEAN : \E threadList \in ThreadLists :
           createNewThreadEnds(ok, threadList)
    \/ \E i \in 1..Len(threads) : selectThread(i)

SpecInsights == InitInsights /\ [][NextInsights]_vars

(***************************************************************************)
(* formatTime of the in-flight queries page.  The argument, a number of    *)
(* seconds that is not negative, is [s, ns]: s whole seconds and ns        *)
(* nanoseconds, exactly.  The result is the sequence of the parts that the *)
(* string joins with spaces; a part [value, decimals, unit] with decimals  *)
(* = 2 prints value / 100 with two decimals.                               *)
(***************************************************************************)
\* the arguments that the model formats
FormatSeconds == {0, 1, 59, 60, 3600, 3661, 86400, 90061, 172800}

FormatNanos == {0, 500, 999999, 1000000, 1680000, 250000000, 999999999}

\* n / d rounded to the nearest integer, halves upwards (n >= 0, d > 0)
Round(n, d) == (2 * n + d) \div (2 * d)

\* a comparison that puts 1 ms with the microseconds
UpToMillisecond(duration) == duration.s = 0 /\ duration.ns <= 1000000

\* seconds < 1e-3
BelowMillisecond(duration) == duration.s = 0 /\ duration.ns < 1000000

\* seconds < 1
BelowSecond(duration) == duration.s = 0

\* Duration.fromObject({ seconds }).shiftTo('days', 'hours', 'minutes',
\* 'seconds'): the seconds keep the fraction
shiftTo(duration) ==
    [days |-> duration.s \div 86400,
     hours |-> (duration.s % 86400) \div 3600,
     minutes |-> (duration.s % 3600) \div 60,
     seconds |-> [s |-> duration.s % 60, ns |-> duration.ns]]

formatTime(duration) ==
    IF BelowMillisecond(duration)
    THEN <<[value |-> Round(duration.ns, 10), decimals |-> 2, unit |-> "µs"]>>
    ELSE IF BelowSecond(duration)
    THEN <<[value |-> Round(duration.ns, 10000), decimals |-> 2,
            unit |-> "ms"]>>
    ELSE LET shifted == shiftTo(duration)
             part(value, unit) ==
                 IF value # 0
                 THEN <<[value |-> value, decimals |-> 0, unit |-> unit]>>
                 ELSE <<>>
             seconds ==
                 IF shifted.seconds.s # 0 \/ shifted.seconds.ns # 0
                 THEN <<[value |-> shifted.seconds.s * 100
                                     + Round(shifted.seconds.ns, 10000000),
                         decimals |-> 2, unit |-> "s"]>>
                 ELSE <<>>
         IN  part(shifted.days, "d") \o part(shifted.hours, "h")
                 \o part(shifted.minutes, "m") \o seconds

InitFormat ==
    /\ PoolIdle
    /\ PhasesIdle
    /\ HeatMapIdle
    /\ ChartIdle
    /\ LiveIdle
    /\ InsightsIdle
    /\ formatInput \in [s : FormatSeconds, ns : FormatNanos]
    /\ formatOutput = <<>>

\* a cell or a panel is rendered: formatTime(seconds)
FormatTime ==
    /\ formatOutput = <<>>
    /\ formatOutput' = formatTime(formatInput)
    /\ UNCHANGED formatInput
    /\ UNCHANGED <<poolVars, phaseVars, heatMapVars, chartVars, liveVars,
                   insightsVars>>

NextFormat == FormatTime

SpecFormat == InitFormat /\ [][NextFormat]_vars

(***************************************************************************)
(* Claims about the in-flight queries page (SpecLive, FairSpecLive,        *)
(* SpecCancel).                                                            *)
(***************************************************************************)
\* the last step issued a request through fetchliveQueriesSafe
SafeFetchIssued == lastStep \in {"mount fetch", "effect fetch", "timer fetch"}

\* the time for which the guard has been held (ms)
GuardHeldMs == (timeoutTimer.delay - timeoutTimer.left) * TickMs

\* C13 as claimed: the mount issues a fetch, every firing of the interval
\* timer issues a fetch, and the guard is held for at most refreshInterval -
\* 500 ms.
C13_FetchEveryInterval ==
    /\ [][~mounted /\ mounted' => lastStep' = "mount fetch"]_vars
    /\ [][(\E k \in 1..Len(intervalTimers) : IntervalFires(k))
            => lastStep' = "timer fetch"]_vars
    /\ [](isFetching => GuardHeldMs <= refreshInterval - 500)

\* C13 as the code has it: the mount issues a fetch; while auto-refresh is
\* enabled a request is issued again and again, whatever becomes of the
\* earlier ones; the guard is held with the timer of withTimeout pending
\* and for at most its delay, the refresh interval at the start of the
\* fetch less 500 ms; an interval timer that fires with the guard free
\* issues a fetch, and one that fires with the guard held was created for a
\* shorter interval than the fetch that holds the guard.
C13_FetchesGoOn ==
    /\ [][~mounted /\ mounted' => lastStep' = "mount fetch"]_vars
    /\ (mounted /\ autoRefreshEnabled)
           ~> (SafeFetchIssued \/ ~autoRefreshEnabled)
    /\ [](isFetching <=> timeoutTimer # NoTimer)
    /\ [](isFetching =>
             /\ timeoutTimer.left \in 0..timeoutTimer.delay
             /\ (timeoutTimer.delay + 1) * TickMs \in IntervalOptions)
    /\ [][\A k \in 1..Len(intervalTimers) :
              IntervalFires(k) =>
                  IF isFetching
                  THEN /\ lastStep' = "other"
                       /\ intervalTimers[k].period <= timeoutTimer.delay
                  ELSE lastStep' = "timer fetch"]_vars

\* C13 witness: an interval timer has just issued a fetch while an earlier
\* request, whose fetch timed out, is still outstanding.
C13_Witness ==
    /\ autoRefreshEnabled
    /\ lastStep = "timer fetch"
    /\ Len(outstanding) = 2
    /\ ~outstanding[1].guarded
    /\ outstanding[2].guarded
    /\ isFetching
    /\ timeoutTimer.left = timeoutTimer.delay

\* C14: while auto-refresh is off no interval timer exists and none fires,
\* so no fetch is driven by a timer; there is never more than one interval
\* timer, and while auto-refresh is on the only one has the period of the
\* selected refresh interval; the refresh interval changes only while
\* auto-refresh is on (the selector is disabled otherwise).
C14_OneIntervalTimerWhileEnabled ==
    /\ [](Len(intervalTimers) <= 1)
    /\ [](~autoRefreshEnabled => intervalTimers = <<>>)
    /\ [](mounted /\ autoRefreshEnabled =>
             /\ Len(intervalTimers) = 1
             /\ intervalTimers[1].period * TickMs = refreshInterval)
    /\ [][(\E k \in 1..Len(intervalTimers) : IntervalFires(k))
            => autoRefreshEnabled /\ autoRefreshEnabled']_vars
    /\ [][lastStep' = "timer fetch" => autoRefreshEnabled]_vars
    /\ [][refreshInterval' # refreshInterval
            => autoRefreshEnabled /\ autoRefreshEnabled']_vars

\* C14 witness: auto-refresh has been switched off after the interval was
\* changed to 10 s, time has passed since, and no interval timer is left.
C14_Witness ==
    /\ mounted
    /\ ~autoRefreshEnabled
    /\ refreshInterval = 10000
    /\ intervalTimers = <<>>
    /\ isFetching
    /\ timeoutTimer.left < timeoutTimer.delay

\* what a chart panel shows: the chart when there are counts and no error,
\* else the error message when there is one, else 'No data available'
PanelOf(counts, chartError) ==
    IF DOMAIN counts # {} /\ chartError = "null" THEN "chart"
    ELSE IF chartError # "null" THEN chartError
    ELSE "No data available"

QueriesByNodePanel == PanelOf(nodeCounts, nodeChartError)

QueriesByIndexPanel == PanelOf(indexCounts, indexChartError)

\* C15: whenever the call that returned last returned an empty list of live
\* queries, both chart panels show 'No data available'.
C15_EmptyResponseShowsNoData ==
    lastFetchEmpty =>
        /\ QueriesByNodePanel = "No data available"
        /\ QueriesByIndexPanel = "No data available"

\* what the five metric panels show: 0 everywhere when the metrics memo is
\* null, else the numbers of the memo (times in seconds, before formatTime)
\* and the id under the longest time when it is not ''
MetricPanels ==
    LET metrics == metricsOf(query)
    IN  IF metrics = NoMetrics
        THEN [activeQueries |-> 0, avgElapsedSec |-> Zero,
              longestElapsedSec |-> Zero, longestQueryId |-> "",
              totalCPUSec |-> Zero, totalMemoryBytes |-> 0]
        ELSE metrics

\* a measurement of a response, 0 when it is missing
Measured(m) == IF m = Missing THEN 0 ELSE m

RECURSIVE Total(_)
Total(values) ==
    IF values = <<>> THEN 0 ELSE Head(values) + Total(Tail(values))

\* the numbers that the metric panels owe to a list of live queries
\* (all but the id of the longest query)
PanelNumbersOf(queries, panels) ==
    LET n == Len(queries)
        latencyOf(i) == Measured(queries[i].latency)
        longest == CHOOSE l \in {latencyOf(i) : i \in 1..n} :
                       \A i \in 1..n : latencyOf(i) <= l
    IN  IF n = 0
        THEN /\ panels.activeQueries = 0
             /\ panels.avgElapsedSec = Zero
             /\ panels.longestElapsedSec = Zero
             /\ panels.longestQueryId = ""
             /\ panels.totalCPUSec = Zero
             /\ panels.totalMemoryBytes = 0
        ELSE /\ panels.activeQueries = n
             /\ panels.avgElapsedSec =
                    Num(Total([i \in 1..n |-> latencyOf(i)]), n * 1000000000)
             /\ panels.longestElapsedSec = Num(longest, 1000000000)
             /\ panels.totalCPUSec =
                    Num(Total([i \in 1..n |-> Measured(queries[i].cpu)]),
                        1000000000)
             /\ panels.totalMemoryBytes =
                    Total([i \in 1..n |-> Measured(queries[i].memory)])

\* the id under the longest time is that of a query of the list whose
\* latency is the longest
LongestIdAttains(queries, panels) ==
    \E i \in 1..Len(queries) :
        /\ queries[i].id = panels.longestQueryId
        /\ Num(Measured(queries[i].latency), 1000000000)
               = panels.longestElapsedSec

\* C16 as claimed: the panels show the numbers of the list of the most
\* recent successful response (they change only when a successful response
\* arrives), and for a list that is not empty the longest time comes with
\* the id of a query attaining it.
C16_PanelsOfLastSuccess ==
    /\ [](PanelNumbersOf(liveQueriesOf(query), MetricPanels))
    /\ [](liveQueriesOf(query) # <<>>
            => LongestIdAttains(liveQueriesOf(query), MetricPanels))
    /\ [][MetricPanels' # MetricPanels => query' # NoQuery]_vars

\* C16 as the code has it: the panels show the numbers of the list in the
\* state query, which is the list of the most recent successful response
\* or, once a response reported a failure, none (every panel 0); the id of
\* a query attaining the longest latency is shown when that latency is
\* positive, and no id when no query has a positive latency.
C16_PanelsOfQueryState ==
    LET queries == liveQueriesOf(query)
    IN  /\ PanelNumbersOf(queries, MetricPanels)
        /\ IF MetricPanels.longestElapsedSec # Zero
           THEN LongestIdAttains(queries, MetricPanels)
           ELSE MetricPanels.longestQueryId = ""

\* C16 witness: the list of two queries, the second with the longer
\* latency and without cpu and memory measurements.
C16_Witness ==
    /\ Len(liveQueriesOf(query)) = 2
    /\ MetricPanels.longestQueryId = "task-2"
    /\ MetricPanels.avgElapsedSec = Num(1, 1000000)
    /\ MetricPanels.totalMemoryBytes = 64

\* C17: no row that is shown as cancelled is among the selected items of
\* the bulk cancel, and no cancel request is posted for a task whose row is
\* shown as cancelled.
C17_CancelledNeverCancelledAgain ==
    /\ \A selected \in selectedItems : ~ShownCancelled(selected.id)
    /\ \A post \in cancelPosts : ~post.shownCancelled

(***************************************************************************)
(* Claims about overlapping requests and the data source (SpecSource).     *)
(***************************************************************************)
\* C22: what the page shows was set by the call issued last among those
\* that have returned and set it: a call never sets what the page shows
\* after a call issued later than it has done so.
C22_LatestIssuedFetchShown == ~displayStale

\* the outstanding calls that fetchliveQueriesSafe made
SafeOutstanding == {i \in 1..Len(callHistory) : callHistory[i].safe}

\* C23: at most one call made by fetchliveQueriesSafe is outstanding, also
\* after withTimeout has given up waiting for an earlier one.
C23_OneSafeRequestOutstanding == Cardinality(SafeOutstanding) <= 1

\* the call that the last step issued was made with the id of the selected
\* data source
LastCallTargetsSelected ==
    /\ outstanding # <<>>
    /\ outstanding[Len(outstanding)].dataSource = dataSource

\* the re-fetch of onSelectedDataSource, like that of the Refresh button,
\* targets the selected data source
RefetchTargetsSelected == lastStep = "manual fetch" => LastCallTargetsSelected

\* the fetches of the mount and of the interval timer target the selected
\* data source
TicksTargetSelected ==
    lastStep \in {"mount fetch", "timer fetch"} => LastCallTargetsSelected

\* C24: every request is issued with the id of the data source selected at
\* that time: once the user has selected another one, neither the re-fetch
\* nor a later tick of the interval timer asks for the one selected before.
C24_RequestsTargetSelectedSource ==
    /\ RefetchTargetsSelected
    /\ TicksTargetSelected

(***************************************************************************)
(* Claims about formatTime (SpecFormat).                                   *)
(***************************************************************************)
\* the value printed with the unit, 0 when the unit is not among the parts
PrintedValue(parts, unit) ==
    IF \E i \in 1..Len(parts) : parts[i].unit = unit
    THEN parts[CHOOSE i \in 1..Len(parts) : parts[i].unit = unit].value
    ELSE 0

\* the position of a unit among d, h, m, s
UnitRank(unit) ==
    CASE unit = "d" -> 1 [] unit = "h" -> 2 [] unit = "m" -> 3
      [] unit = "s" -> 4 [] OTHER -> 0

\* C19: a formatted duration below 1 ms is one part in microseconds with
\* two decimals, one from 1 ms and below 1 s is one part in milliseconds
\* with two decimals, and one from 1 s on is made of the day, hour, minute
\* and second components that are not zero, in this order, which add up to
\* the duration; 500 ns is 0.50 µs, 1,000,000 ns is 1.00 ms and 1 s is
\* 1.00 s.
C19_UnitByMagnitude ==
    formatOutput # <<>> =>
        LET s == formatInput.s
            ns == formatInput.ns
            parts == formatOutput
            whole == PrintedValue(parts, "d") * 86400
                       + PrintedValue(parts, "h") * 3600
                       + PrintedValue(parts, "m") * 60
            hundredths == PrintedValue(parts, "s") - (s - whole) * 100
        IN  /\ s = 0 /\ ns < 1000000 =>
                   /\ Len(parts) = 1
                   /\ parts[1].unit = "µs" /\ parts[1].decimals = 2
                   /\ Abs(parts[1].value * 10 - ns) <= 5
            /\ s = 0 /\ ns >= 1000000 =>
                   /\ Len(parts) = 1
                   /\ parts[1].unit = "ms" /\ parts[1].decimals = 2
                   /\ Abs(parts[1].value * 10000 - ns) <= 5000
            /\ s >= 1 =>
                   /\ \A i \in 1..Len(parts) : UnitRank(parts[i].unit) > 0
                   /\ \A i \in 1..Len(parts) : \A j \in 1..Len(parts) :
                          i < j => UnitRank(parts[i].unit)
                                      < UnitRank(parts[j].unit)
                   /\ \A i \in 1..Len(parts) :
                          IF parts[i].unit = "s"
                          THEN parts[i].decimals = 2
                          ELSE parts[i].decimals = 0 /\ parts[i].value > 0
                   /\ PrintedValue(parts, "h") < 24
                   /\ PrintedValue(parts, "m") < 60
                   /\ s - whole \in 0..59
                   /\ (\E i \in 1..Len(parts) : parts[i].unit = "s")
                          <=> (s - whole # 0 \/ ns # 0)
                   /\ (\E i \in 1..Len(parts) : parts[i].unit = "s") =>
                          /\ hundredths \in 0..100
                          /\ Abs(hundredths * 10000000 - ns) <= 5000000
            /\ s = 0 /\ ns = 500 => parts[1].value = 50
            /\ s = 0 /\ ns = 1000000 => parts[1].value = 100
            /\ s = 1 /\ ns = 0 =>
                   parts = <<[value |-> 100, decimals |-> 2, unit |-> "s"]>>

\* C19 witness: 1 ms exactly has been formatted as 1.00 ms.
C19_Witness ==
    /\ formatInput = [s |-> 0, ns |-> 1000000]
    /\ formatOutput = <<[value |-> 100, decimals |-> 2, unit |-> "ms"]>>

(***************************************************************************)
(* Claims about the Intelligent Insights page (SpecInsights).              *)
(***************************************************************************)
\* C18: while the page is mounted and currentThread is null, the main panel
\* shows the welcome content, whatever the other values of the hook are.
C18_WelcomeWithoutThread ==
    insightsMounted /\ currentThread = NoThread
        => renderMainContent = "Welcome to Intelligent Insights Agent"

(***************************************************************************)
(* Claims about the order of the aggregated lists (Spec).                  *)
(***************************************************************************)
\* the place of an identifier among the identifiers of its kind in
\* ascending order of the strings ("products-10" is before "products-3")
PlaceOfId ==
    [id \in {"products-0", "node-1"} |-> 1]
    @@ [id \in {"products-10", "node-2"} |-> 2]
    @@ [id \in {"products-3"} |-> 3]

\* the identifiers of the shards and of the nodes supplied, in the order
\* of their supply
SuppliedShardIds == [i \in 1..Len(AllShards(records)) |-> AllShards(records)[i].shardId]

SuppliedNodeIds == [i \in 1..Len(AllNodes(records)) |-> AllNodes(records)[i].nodeId]

\* C21: the aggregated shard list has one entry for each shardId supplied
\* and the aggregated node list one for each nodeId supplied, both in
\* strictly ascending order of the identifier strings, whatever the order
\* of the supply.
C21_SortedByIdentifier ==
    ~renderThrew =>
        /\ {aggregatedShardData[i].shardId : i \in 1..Len(aggregatedShardData)}
               = Range(SuppliedShardIds)
        /\ {aggregatedNodeData[i].nodeId : i \in 1..Len(aggregatedNodeData)}
               = Range(SuppliedNodeIds)
        /\ \A i \in 1..Len(aggregatedShardData) :
           \A j \in 1..Len(aggregatedShardData) :
               i < j => PlaceOfId[aggregatedShardData[i].shardId]
                           < PlaceOfId[aggregatedShardData[j].shardId]
        /\ \A i \in 1..Len(aggregatedNodeData) :
           \A j \in 1..Len(aggregatedNodeData) :
               i < j => PlaceOfId[aggregatedNodeData[i].nodeId]
                           < PlaceOfId[aggregatedNodeData[j].nodeId]

\* C21 witness: the first record supplies products-3 and then products-10,
\* the second products-10 and then products-0 (node-2 before node-1); the
\* lists are products-0, products-10, products-3 and node-1, node-2.
C21_Witness ==
    /\ ~renderThrew
    /\ SuppliedShardIds
           = <<"products-3", "products-10", "products-10", "products-0">>
    /\ [i \in 1..Len(aggregatedShardData) |-> aggregatedShardData[i].shardId]
           = <<"products-0", "products-10", "products-3">>
    /\ [i \in 1..Len(aggregatedNodeData) |-> aggregatedNodeData[i].nodeId]
           = <<"node-1", "node-2">>

(***************************************************************************)
(* Claims about the anomaly detector (SpecChart).                          *)
(***************************************************************************)
\* the latencies of the historical data, as integers
HistoryValue(i) == historicalData[i].latency.n

\* sum and sum of squares of the 10 values that end at position i
WindowSum(i) ==
    LET F[k \in 0..windowSize] ==
            IF k = 0 THEN 0 ELSE F[k - 1] + HistoryValue(i - k + 1)
    IN  F[windowSize]

WindowSquares(i) ==
    LET F[k \in 0..windowSize] ==
            IF k = 0 THEN 0
            ELSE F[k - 1] + HistoryValue(i - k + 1) * HistoryValue(i - k + 1)
    IN  F[windowSize]

\* the value at position i is outside [mean - 2 sigma, mean + 2 sigma] of
\* its trailing window: (10 v - S)^2 > 4 (10 Q - S^2), S the sum and Q the
\* sum of squares of the window
OutsideTwoSigma(i) ==
    LET d == 10 * HistoryValue(i) - WindowSum(i)
    IN  d * d > 4 * (10 * WindowSquares(i) - WindowSum(i) * WindowSum(i))

\* mean - 2 sigma > 0 for the window that ends at position i
LowerBoundPositive(i) ==
    /\ WindowSum(i) > 0
    /\ WindowSum(i) * WindowSum(i)
           > 4 * (10 * WindowSquares(i) - WindowSum(i) * WindowSum(i))

\* the value at position i is outside [max(0, mean - 2 sigma), mean + 2 sigma]
OutsideClampedBand(i) ==
    \/ OutsideTwoSigma(i) /\ 10 * HistoryValue(i) > WindowSum(i)
    \/ IF LowerBoundPositive(i)
       THEN OutsideTwoSigma(i) /\ 10 * HistoryValue(i) < WindowSum(i)
       ELSE HistoryValue(i) < 0

\* the points at the positions of the set, in the order of the series
PointsAt(positions) ==
    LET latencyData == latencyDataOf(historicalData)
        nth(k) == CHOOSE i \in positions :
                      Cardinality({j \in positions : j < i}) = k - 1
    IN  [k \in 1..Cardinality(positions) |-> latencyData[nth(k)]]

Reorderings(arr) ==
    {[i \in 1..Len(arr) |-> arr[f[i]]] : f \in Permutations(1..Len(arr))}

\* arr is in ascending order
IsAscending(arr) == \A i \in 1..(Len(arr) - 1) : Leq(arr[i], arr[i + 1])

\* the k-th smallest element of arr, k in 1..Len(arr)
OrderStatistic(arr, k) ==
    CHOOSE v \in {arr[i] : i \in 1..Len(arr)} :
        /\ Cardinality({i \in 1..Len(arr) : Lt(arr[i], v)}) < k
        /\ Cardinality({i \in 1..Len(arr) : Leq(arr[i], v)}) >= k

\* the linear-interpolation percentile of the order statistics of arr
ReferencePercentile(arr, p) ==
    IF arr = <<>> THEN Zero
    ELSE LET n == Len(arr)
             idx == Mul(p, Int2Num(n - 1))
             lo == Floor(idx)
             hi == Ceil(idx)
             w == Sub(idx, Int2Num(lo))
         IN  IF hi > n - 1 THEN OrderStatistic(arr, n)
             ELSE Add(Mul(OrderStatistic(arr, lo + 1), Sub(One, w)),
                      Mul(OrderStatistic(arr, hi + 1), w))

Durations(phases) == [i \in 1..Len(phases) |-> phases[i].duration]

\* phase i + 1 starts where phase i ends, and the first phase starts at 0
Contiguous(phases) ==
    /\ phases[1].startTime = Zero
    /\ \A i \in 1..4 :
           phases[i + 1].startTime = Add(phases[i].startTime, phases[i].duration)

\* C7: for a total latency > 0 and every combination of signals the five
\* phase durations sum to the total latency (the normalised fractions sum
\* to 1).
C7_PhaseSum ==
    /\ (queryPhases # <<>> /\ waterfallRecord.avgLatency > 0) =>
           /\ Len(queryPhases) = 5
           /\ Len(recordPhases) = 5
           /\ Sum(Durations(queryPhases)) = Int2Num(waterfallRecord.avgLatency)
           /\ Sum(Durations(recordPhases)) = Int2Num(waterfallRecord.avgLatency)
    /\ waterfallRecord = NoRecord =>
           \A level \in {"simple", "medium", "complex"} :
           \A scanType \in {"index", "full_scan"} :
           \A shardCount \in 0..MaxAffectedShards :
           \A resultSize \in {10, 1000, 1001} :
           \A hasAggregations \in BOOLEAN :
               LET a == calculateDynamicPhaseAllocation(
                            [level |-> level, scanType |-> scanType],
                            shardCount, resultSize, hasAggregations)
               IN  Sum(<<a.parsing, a.planning, a.query, a.fetch, a.reduce>>) = One

\* every adjustment fired (complex full scan, more than 5 shards, large
\* result, aggregations) on a record of 1000 ms: the fractions were divided
\* by 1.70 and the query phase takes 500 ms
C7_Witness ==
    /\ queryPhases # <<>>
    /\ waterfallRecord.avgLatency = 1000
    /\ waterfallRecord.queryStructure.wildcard
    /\ waterfallRecord.affectedShards > 5
    /\ waterfallRecord.queryStructure.size > 1000
    /\ waterfallRecord.queryStructure.aggs
    /\ queryPhases[3].duration = Int2Num(500)
    /\ Sum(Durations(queryPhases)) = Int2Num(1000)

NoAdjustmentFires(record) ==
    /\ analyzeQueryComplexity(record).level = "simple"
    /\ analyzeQueryComplexity(record).scanType = "index"
    /\ record.affectedShards <= 5
    /\ extractResultSize(record.queryStructure) <= 1000
    /\ ~hasQueryAggregations(record.queryStructure)

\* the durations are 3, 7, 50, 25 and 15 hundredths of the total
BaseShares(phases, total) ==
    Durations(phases)
        = <<Num(3 * total, 100), Num(7 * total, 100), Num(50 * total, 100),
            Num(25 * total, 100), Num(15 * total, 100)>>

\* C20: when no adjustment fires (simple query, at most 5 shards, result
\* size at most 1000, no aggregations, index scan) the fractions are the
\* base 3 %, 7 %, 50 %, 25 % and 15 %: a total of 1000 gives 30, 70, 500,
\* 250 and 150, and the query phase is the largest.
C20_BaseFractions ==
    (queryPhases # <<>> /\ NoAdjustmentFires(waterfallRecord)) =>
        /\ calculateDynamicPhaseAllocation(
               analyzeQueryComplexity(waterfallRecord),
               waterfallRecord.affectedShards,
               extractResultSize(waterfallRecord.queryStructure),
               hasQueryAggregations(waterfallRecord.queryStructure))
             = [parsing |-> Num(3, 100), planning |-> Num(7, 100),
                query |-> Num(50, 100), fetch |-> Num(25, 100),
                reduce |-> Num(15, 100)]
        /\ BaseShares(queryPhases, waterfallRecord.avgLatency)
        /\ BaseShares(recordPhases, waterfallRecord.avgLatency)
        /\ waterfallRecord.avgLatency = 1000 =>
               Durations(queryPhases)
                   = <<Int2Num(30), Int2Num(70), Int2Num(500), Int2Num(250),
                       Int2Num(150)>>
        /\ waterfallRecord.avgLatency > 0 =>
               \A i \in {1, 2, 4, 5} :
                   Lt(queryPhases[i].duration, queryPhases[3].duration)

\* C20 witness: a record of 1000 ms with two clauses, 5 shards and size
\* 1000, at the thresholds of the adjustments, gets 30, 70, 500, 250, 150.
C20_Witness ==
    /\ queryPhases # <<>>
    /\ waterfallRecord.avgLatency = 1000
    /\ waterfallRecord.affectedShards = 5
    /\ waterfallRecord.queryStructure.hasQuery
    /\ waterfallRecord.queryStructure.must = 2
    /\ waterfallRecord.queryStructure.size = 1000
    /\ NoAdjustmentFires(waterfallRecord)
    /\ queryPhases[1].duration = Int2Num(30)
    /\ queryPhases[3].duration = Int2Num(500)
    /\ queryPhases[5].duration = Int2Num(150)

=============================================================================
